---- MODULE Spec2Model ----
(***************************************************************************)
(* The console of Hathor Forge (src/src/App.tsx): the React state of the   *)
(* App component, its asynchronous handlers and its backend event          *)
(* listeners.  Every `await invoke(...)` of a handler is a call in flight; *)
(* the continuation of the handler runs when the response is delivered.    *)
(* The Tauri backend (src-tauri, not part of the sources at hand) is the   *)
(* environment: it executes lifecycle commands against three supervised    *)
(* processes and emits the *-terminated events.                            *)
(***************************************************************************)
EXTENDS Integers, Sequences, FiniteSets, Bags, TLC

\* Bounds of the model.
MaxCalls == 2          \* handler invocations in flight at the same time
MaxEvents == 1         \* undelivered *-terminated events per service

MaxWallets == 2        \* entries of the tracked wallet list
MaxHeight == 1         \* block height the node reports

\* Program constants.
HeadlessPort == 8001
maxAttempts == 30      \* pollWalletStatus
ReadyCode == 3         \* status_code of a wallet that is ready
MinFund == 100         \* fundWallet: 1 HTR in cents
MaxFund == 10000       \* fundWallet: 100 HTR in cents

\* A nullable value is a sequence of length at most one.
null == << >>
Some(x) == << x >>

\* Exit codes carried by the *-terminated events (number | null).  Only the
\* node-terminated listener reads its payload.
ExitCodes(s) == IF s = "node" THEN {null, Some(0), Some(1)} ELSE {null}

\* String(e) of a rejected invoke.
BackendError == "backend error"

VARIABLES
    nodeStatus,        \* useState<NodeStatusType>
    minerStatus,       \* useState<MinerStatusType>
    headlessStatus,    \* useState<HeadlessStatus>
    headlessWallets,   \* useState<HeadlessWallet[]>
    blockHeight,       \* useState(0)
    hashRate,          \* useState("0 H/s")
    error,             \* useState<string | null>
    showResetConfirm,  \* useState(false)
    resetStatus,       \* useState<"idle" | "resetting" | "success" | "error">
    resetMessage,      \* useState("")
    faucetBalance,     \* useState<{ available; locked } | null>
    txResult,          \* useState<{ type; message } | null>
    showCreateWallet,  \* useState(false)
    newSeed,           \* useState<string | null>
    newWalletId,       \* useState("")
    importSeed,        \* useState("")
    creatingWallet,    \* useState(false)
    calls,             \* bag of invoke calls in flight, each with its continuation
    events,            \* backend events emitted and not yet delivered to a listener
    alive,             \* backend: which supervised processes exist
    logs,              \* useState<LogEntry[]>
    logId,             \* logIdRef.current
    faucetAddress,     \* useState("")
    faucetAmount,      \* useState("100")
    sendingTx          \* useState(false)

console == << nodeStatus, minerStatus, headlessStatus, headlessWallets, blockHeight,
              hashRate, error, showResetConfirm, resetStatus, resetMessage >>
logView == << logs, logId >>
faucetForm == << faucetAddress, faucetAmount, sendingTx >>

walletPage == << faucetBalance, txResult, showCreateWallet, newSeed, newWalletId,
                 importSeed, creatingWallet >>
vars == << nodeStatus, minerStatus, headlessStatus, headlessWallets, blockHeight,
           hashRate, error, showResetConfirm, resetStatus, resetMessage,
           faucetBalance, txResult, showCreateWallet, newSeed, newWalletId,
           importSeed, creatingWallet, calls, events, alive, logs, logId,
           faucetAddress, faucetAmount, sendingTx >>

NodeStatusType == {"stopped", "starting", "running", "error"}
MinerStatusType == {"stopped", "starting", "mining", "error"}

----------------------------------------------------------------------------
\* Calls in flight.

NoWallet == "-"

\* An `await invoke(cmd)` made by handler h.  The backend executes a lifecycle
\* command when it is invoked, and st is the outcome that travels back: "ok" (the
\* promise will resolve) or "err" (it will reject).  For every other command st
\* is "sent" and the outcome is drawn when the response is delivered.
\* w is the wallet id the handler was called with, i the attempt counter of
\* pollWalletStatus and amt the amount of a send request.
CallWith(h, cmd, w, st, i, amt) ==
    [h |-> h, cmd |-> cmd, w |-> w, st |-> st, i |-> i, amt |-> amt]

Call(h, cmd, w, st) == CallWith(h, cmd, w, st, 0, 0)

InFlight == BagToSet(calls)

\* The handler invocations in flight that await command cmd.
Awaiting(cmd) == {c \in InFlight : c.cmd = cmd}

\* A user action starts a handler only while fewer than MaxCalls invocations run.
CanCall == BagCardinality(calls) < MaxCalls

\* Commands the backend executes against the supervised processes.
LifecycleCmds == {"start_node", "stop_node", "start_miner", "stop_miner",
                  "start_headless", "stop_headless", "reset_data"}

\* The response to call c is ready and resolves (r = "ok") or rejects (r = "err").
Ready(c, r) ==
    /\ c \in InFlight
    /\ r \in {"ok", "err"}
    /\ IF c.cmd \in LifecycleCmds THEN c.st = r ELSE c.st = "sent"

----------------------------------------------------------------------------
\* The backend: process supervision behind the lifecycle commands (spec 4.1).

Event(name, payload) == [name |-> name, payload |-> payload]

Undelivered == BagToSet(events)

Services == {"node", "miner", "headless"}

StartCmd == [node |-> "start_node", miner |-> "start_miner", headless |-> "start_headless"]
StopCmd == [node |-> "stop_node", miner |-> "stop_miner", headless |-> "stop_headless"]
TerminatedEvent == [node |-> "node-terminated", miner |-> "miner-terminated",
                    headless |-> "headless-terminated"]

Pending(name) ==
    BagCardinality([e \in {x \in Undelivered : x.name = name} |-> events[e]])

\* The process of service s ends; its termination is always reported.
Terminate(s, code) ==
    /\ alive[s]
    /\ Pending(TerminatedEvent[s]) < MaxEvents
    /\ alive' = [alive EXCEPT ![s] = FALSE]
    /\ events' = events (+) SetToBag({Event(TerminatedEvent[s], code)})

\* start(): rejected while the service has a process; otherwise the spawn succeeds or
\* fails (executable missing, port bound).
BackendStart(s, st) ==
    \/ /\ st = "ok"
       /\ ~alive[s]
       /\ alive' = [alive EXCEPT ![s] = TRUE]
       /\ UNCHANGED events
    \/ /\ st = "err"
       /\ UNCHANGED << events, alive >>

\* stop(): terminates the process, or fails (also when there is none).
BackendStop(s, st) ==
    \/ /\ st = "ok"
       /\ \E code \in ExitCodes(s) : Terminate(s, code)
    \/ /\ st = "err"
       /\ UNCHANGED << events, alive >>

\* reset_data: permitted only when every service is stopped.
BackendReset(st) ==
    /\ \/ st = "ok" /\ \A s \in Services : ~alive[s]
       \/ st = "err"
    /\ UNCHANGED << events, alive >>

\* What invoking cmd does in the backend, and the outcome st of the call.
Exec(cmd, st) ==
    \/ \E s \in Services : cmd = StartCmd[s] /\ BackendStart(s, st)
    \/ \E s \in Services : cmd = StopCmd[s] /\ BackendStop(s, st)
    \/ cmd = "reset_data" /\ BackendReset(st)
    \/ cmd \notin LifecycleCmds /\ st = "sent" /\ UNCHANGED << events, alive >>

\* A supervised process exits on its own.
ProcessExit(s) ==
    /\ \E code \in ExitCodes(s) : Terminate(s, code)
    /\ UNCHANGED << console, calls >>
    /\ UNCHANGED walletPage
    /\ UNCHANGED logView
    /\ UNCHANGED faucetForm

\* A supervised process crashes: it exits on its own with a non-zero code.
ProcessCrash(s) ==
    /\ Terminate(s, Some(1))
    /\ UNCHANGED << console, calls >>
    /\ UNCHANGED walletPage
    /\ UNCHANGED logView
    /\ UNCHANGED faucetForm

----------------------------------------------------------------------------
\* Continuations.

\* A handler invoked from a user action awaits its first command.
Begin(h, cmd, w) ==
    \E st \in {"sent", "ok", "err"} :
        /\ Exec(cmd, st)
        /\ calls' = calls (+) SetToBag({Call(h, cmd, w, st)})

\* The continuation of call c awaits its next command.
Then(c, h, cmd, w) ==
    \E st \in {"sent", "ok", "err"} :
        /\ Exec(cmd, st)
        /\ calls' = (calls (-) SetToBag({c})) (+) SetToBag({Call(h, cmd, w, st)})

\* The continuation of call c returns.
Done(c) ==
    /\ calls' = calls (-) SetToBag({c})
    /\ UNCHANGED << events, alive >>

----------------------------------------------------------------------------
\* Derived render state.

isLoading == nodeStatus = "starting" \/ minerStatus = "starting"

Init ==
    /\ nodeStatus = "stopped"
    /\ minerStatus = "stopped"
    /\ headlessStatus = [running |-> FALSE, port |-> null]
    /\ headlessWallets = << >>
    /\ blockHeight = 0
    /\ hashRate = "0 H/s"
    /\ error = null
    /\ showResetConfirm = FALSE
    /\ resetStatus = "idle"
    /\ resetMessage = ""
    /\ faucetBalance = null
    /\ txResult = null
    /\ showCreateWallet = FALSE
    /\ newSeed = null
    /\ newWalletId = ""
    /\ importSeed = ""
    /\ creatingWallet = FALSE
    /\ calls = EmptyBag
    /\ events = EmptyBag
    /\ alive = [node |-> FALSE, miner |-> FALSE, headless |-> FALSE]
    /\ logs = << >>
    /\ logId = 0
    /\ faucetAddress = ""
    /\ faucetAmount = << "1", "0", "0" >>
    /\ sendingTx = FALSE

----------------------------------------------------------------------------
\* handleStartNode: the "Start Network" buttons and the handler.

StartNetworkButton ==
    /\ nodeStatus = "stopped" \/ nodeStatus = "error"
    /\ ~isLoading

handleStartNode ==
    /\ StartNetworkButton
    /\ CanCall
    /\ error' = null
    /\ nodeStatus' = "starting"
    /\ Begin("handleStartNode", "start_node", NoWallet)
    /\ UNCHANGED << minerStatus, headlessStatus, headlessWallets, blockHeight, hashRate,
                    showResetConfirm, resetStatus, resetMessage >>
    /\ UNCHANGED walletPage
    /\ UNCHANGED logView
    /\ UNCHANGED faucetForm

\* handleStartNode_start_node with the catch block restoring "stopped".
handleStartNode_start_node_stays_stopped(c, r) ==
    /\ c.h = "handleStartNode" /\ c.cmd = "start_node" /\ Ready(c, r)
    /\ IF r = "ok"
       THEN /\ nodeStatus' = "running"
            /\ Then(c, "handleStartNode", "start_explorer_server", NoWallet)
            /\ UNCHANGED error
       ELSE /\ error' = Some(BackendError)
            /\ nodeStatus' = "stopped"
            /\ Done(c)
    /\ UNCHANGED << minerStatus, headlessStatus, headlessWallets, blockHeight, hashRate,
                    showResetConfirm, resetStatus, resetMessage >>
    /\ UNCHANGED walletPage
    /\ UNCHANGED logView
    /\ UNCHANGED faucetForm

\* after `await invoke("start_node")`
handleStartNode_start_node(c, r) ==
    /\ c.h = "handleStartNode" /\ c.cmd = "start_node" /\ Ready(c, r)
    /\ IF r = "ok"
       THEN /\ nodeStatus' = "running"
            /\ Then(c, "handleStartNode", "start_explorer_server", NoWallet)
            /\ UNCHANGED error
       ELSE /\ error' = Some(BackendError)
            /\ nodeStatus' = "error"
            /\ Done(c)
    /\ UNCHANGED << minerStatus, headlessStatus, headlessWallets, blockHeight, hashRate,
                    showResetConfirm, resetStatus, resetMessage >>
    /\ UNCHANGED walletPage
    /\ UNCHANGED logView
    /\ UNCHANGED faucetForm

\* handleStartNode_start_explorer_server with a failed explorer start failing the
\* whole workflow.
handleStartNode_start_explorer_server_aborts(c, r) ==
    /\ c.h = "handleStartNode" /\ c.cmd = "start_explorer_server" /\ Ready(c, r)
    /\ IF r = "ok"
       THEN /\ Then(c, "handleStartNode", "start_headless", NoWallet)
            /\ UNCHANGED << nodeStatus, error >>
       ELSE /\ error' = Some(BackendError)
            /\ nodeStatus' = "error"
            /\ Done(c)
    /\ UNCHANGED << minerStatus, headlessStatus, headlessWallets, blockHeight, hashRate,
                    showResetConfirm, resetStatus, resetMessage >>
    /\ UNCHANGED walletPage
    /\ UNCHANGED logView
    /\ UNCHANGED faucetForm

\* after `await invoke("start_explorer_server")`: a failure is only logged
handleStartNode_start_explorer_server(c, r) ==
    /\ c.h = "handleStartNode" /\ c.cmd = "start_explorer_server" /\ Ready(c, r)
    /\ Then(c, "handleStartNode", "start_headless", NoWallet)
    /\ UNCHANGED console
    /\ UNCHANGED walletPage
    /\ UNCHANGED logView
    /\ UNCHANGED faucetForm

\* after `await invoke("start_headless")`: a failure is only logged
handleStartNode_start_headless(c, r) ==
    /\ c.h = "handleStartNode" /\ c.cmd = "start_headless" /\ Ready(c, r)
    /\ IF r = "ok"
       THEN headlessStatus' = [running |-> TRUE, port |-> Some(HeadlessPort)]
       ELSE UNCHANGED headlessStatus
    /\ Done(c)
    /\ UNCHANGED << nodeStatus, minerStatus, headlessWallets, blockHeight, hashRate, error,
                    showResetConfirm, resetStatus, resetMessage >>
    /\ UNCHANGED walletPage
    /\ UNCHANGED logView
    /\ UNCHANGED faucetForm

----------------------------------------------------------------------------
\* handleStopNode: the "Stop Network" button and the handler.

StopNetworkButton ==
    /\ ~(nodeStatus = "stopped" \/ nodeStatus = "error")
    /\ ~isLoading

handleStopNode ==
    /\ StopNetworkButton
    /\ CanCall
    /\ Begin("handleStopNode", "stop_miner", NoWallet)
    /\ UNCHANGED console
    /\ UNCHANGED walletPage
    /\ UNCHANGED logView
    /\ UNCHANGED faucetForm

\* The command awaited after cmd in handleStopNode; the first three awaits carry
\* .catch(() => {}), so resolved or rejected the handler goes on to the next.
handleStopNode_after(cmd) ==
    CASE cmd = "stop_miner" -> "stop_headless"
      [] cmd = "stop_headless" -> "stop_explorer_server"
      [] cmd = "stop_explorer_server" -> "stop_node"

\* handleStopNode_dependents without the .catch(() => {}): a rejected dependent
\* stop lands in the handler's catch block.
handleStopNode_dependents_uncaught(c, r) ==
    /\ c.h = "handleStopNode" /\ Ready(c, r)
    /\ c.cmd \in {"stop_miner", "stop_headless", "stop_explorer_server"}
    /\ IF r = "ok"
       THEN /\ Then(c, "handleStopNode", handleStopNode_after(c.cmd), NoWallet)
            /\ UNCHANGED error
       ELSE /\ error' = Some(BackendError)
            /\ Done(c)
    /\ UNCHANGED << nodeStatus, minerStatus, headlessStatus, headlessWallets, blockHeight,
                    hashRate, showResetConfirm, resetStatus, resetMessage >>
    /\ UNCHANGED walletPage
    /\ UNCHANGED logView
    /\ UNCHANGED faucetForm

handleStopNode_dependents(c, r) ==
    /\ c.h = "handleStopNode" /\ Ready(c, r)
    /\ c.cmd \in {"stop_miner", "stop_headless", "stop_explorer_server"}
    /\ Then(c, "handleStopNode", handleStopNode_after(c.cmd), NoWallet)
    /\ UNCHANGED console
    /\ UNCHANGED walletPage
    /\ UNCHANGED logView
    /\ UNCHANGED faucetForm

\* handleStopNode_stop_node with the state updates moved out of the try block:
\* they run whether stop_node resolved or was rejected.
handleStopNode_stop_node_resets_on_failure(c, r) ==
    /\ c.h = "handleStopNode" /\ c.cmd = "stop_node" /\ Ready(c, r)
    /\ nodeStatus' = "stopped"
    /\ minerStatus' = "stopped"
    /\ headlessStatus' = [running |-> FALSE, port |-> null]
    /\ headlessWallets' = << >>
    /\ blockHeight' = 0
    /\ hashRate' = "0 H/s"
    /\ IF r = "ok" THEN UNCHANGED error ELSE error' = Some(BackendError)
    /\ Done(c)
    /\ UNCHANGED << showResetConfirm, resetStatus, resetMessage >>
    /\ UNCHANGED walletPage
    /\ UNCHANGED logView
    /\ UNCHANGED faucetForm

\* after `await invoke("stop_node")`
handleStopNode_stop_node(c, r) ==
    /\ c.h = "handleStopNode" /\ c.cmd = "stop_node" /\ Ready(c, r)
    /\ IF r = "ok"
       THEN /\ nodeStatus' = "stopped"
            /\ minerStatus' = "stopped"
            /\ headlessStatus' = [running |-> FALSE, port |-> null]
            /\ headlessWallets' = << >>
            /\ blockHeight' = 0
            /\ hashRate' = "0 H/s"
            /\ UNCHANGED error
       ELSE /\ error' = Some(BackendError)
            /\ UNCHANGED << nodeStatus, minerStatus, headlessStatus, headlessWallets,
                            blockHeight, hashRate >>
    /\ Done(c)
    /\ UNCHANGED << showResetConfirm, resetStatus, resetMessage >>
    /\ UNCHANGED walletPage
    /\ UNCHANGED logView
    /\ UNCHANGED faucetForm

----------------------------------------------------------------------------
\* Miner: the "Start Mining" / "Stop Mining" buttons and their handlers.

StartMiningButton ==
    /\ nodeStatus = "running" /\ minerStatus = "stopped"
    /\ ~isLoading

handleStartMiner ==
    /\ StartMiningButton
    /\ CanCall
    /\ IF nodeStatus # "running"
       THEN UNCHANGED << minerStatus, calls, events, alive >>
       ELSE /\ minerStatus' = "starting"
            /\ Begin("handleStartMiner", "start_miner", NoWallet)
    /\ UNCHANGED << nodeStatus, headlessStatus, headlessWallets, blockHeight, hashRate,
                    error, showResetConfirm, resetStatus, resetMessage >>
    /\ UNCHANGED walletPage
    /\ UNCHANGED logView
    /\ UNCHANGED faucetForm

handleStartMiner_start_miner(c, r) ==
    /\ c.h = "handleStartMiner" /\ c.cmd = "start_miner" /\ Ready(c, r)
    /\ IF r = "ok"
       THEN minerStatus' = "mining" /\ UNCHANGED error
       ELSE error' = Some(BackendError) /\ minerStatus' = "error"
    /\ Done(c)
    /\ UNCHANGED << nodeStatus, headlessStatus, headlessWallets, blockHeight, hashRate,
                    showResetConfirm, resetStatus, resetMessage >>
    /\ UNCHANGED walletPage
    /\ UNCHANGED logView
    /\ UNCHANGED faucetForm

StopMiningButton ==
    /\ minerStatus = "mining" \/ minerStatus = "starting"
    /\ ~(minerStatus = "starting")

handleStopMiner ==
    /\ StopMiningButton
    /\ CanCall
    /\ Begin("handleStopMiner", "stop_miner", NoWallet)
    /\ UNCHANGED console
    /\ UNCHANGED walletPage
    /\ UNCHANGED logView
    /\ UNCHANGED faucetForm

handleStopMiner_stop_miner(c, r) ==
    /\ c.h = "handleStopMiner" /\ c.cmd = "stop_miner" /\ Ready(c, r)
    /\ IF r = "ok"
       THEN minerStatus' = "stopped" /\ hashRate' = "0 H/s" /\ UNCHANGED error
       ELSE error' = Some(BackendError) /\ UNCHANGED << minerStatus, hashRate >>
    /\ Done(c)
    /\ UNCHANGED << nodeStatus, headlessStatus, headlessWallets, blockHeight,
                    showResetConfirm, resetStatus, resetMessage >>
    /\ UNCHANGED walletPage
    /\ UNCHANGED logView
    /\ UNCHANGED faucetForm

----------------------------------------------------------------------------
\* Wallet service: the "Start Wallet Service" / "Stop Service" buttons of the
\* wallet page, which renders them only while the node is shown running.

StartWalletServiceButton == nodeStatus = "running" /\ ~headlessStatus.running

startHeadless ==
    /\ StartWalletServiceButton
    /\ CanCall
    /\ Begin("startHeadless", "start_headless", NoWallet)
    /\ UNCHANGED console
    /\ UNCHANGED walletPage
    /\ UNCHANGED logView
    /\ UNCHANGED faucetForm

startHeadless_start_headless(c, r) ==
    /\ c.h = "startHeadless" /\ c.cmd = "start_headless" /\ Ready(c, r)
    /\ IF r = "ok"
       THEN /\ headlessStatus' = [running |-> TRUE, port |-> Some(HeadlessPort)]
            /\ UNCHANGED error
       ELSE /\ error' = Some(BackendError)
            /\ UNCHANGED headlessStatus
    /\ Done(c)
    /\ UNCHANGED << nodeStatus, minerStatus, headlessWallets, blockHeight, hashRate,
                    showResetConfirm, resetStatus, resetMessage >>
    /\ UNCHANGED walletPage
    /\ UNCHANGED logView
    /\ UNCHANGED faucetForm

StopServiceButton == nodeStatus = "running" /\ headlessStatus.running

stopHeadless ==
    /\ StopServiceButton
    /\ CanCall
    /\ Begin("stopHeadless", "stop_headless", NoWallet)
    /\ UNCHANGED console
    /\ UNCHANGED walletPage
    /\ UNCHANGED logView
    /\ UNCHANGED faucetForm

stopHeadless_stop_headless(c, r) ==
    /\ c.h = "stopHeadless" /\ c.cmd = "stop_headless" /\ Ready(c, r)
    /\ IF r = "ok"
       THEN /\ headlessStatus' = [running |-> FALSE, port |-> null]
            /\ headlessWallets' = << >>
            /\ UNCHANGED error
       ELSE /\ error' = Some(BackendError)
            /\ UNCHANGED << headlessStatus, headlessWallets >>
    /\ Done(c)
    /\ UNCHANGED << nodeStatus, minerStatus, blockHeight, hashRate,
                    showResetConfirm, resetStatus, resetMessage >>
    /\ UNCHANGED walletPage
    /\ UNCHANGED logView
    /\ UNCHANGED faucetForm

----------------------------------------------------------------------------
\* Reset data: the "Reset Data" button of the settings page, the confirmation
\* modal and handleResetData.

ResetDataButton == ~(nodeStatus = "running" \/ resetStatus = "resetting")

openResetConfirm ==
    /\ ResetDataButton
    /\ ~showResetConfirm
    /\ showResetConfirm' = TRUE
    /\ UNCHANGED << nodeStatus, minerStatus, headlessStatus, headlessWallets, blockHeight,
                    hashRate, error, resetStatus, resetMessage, calls, events, alive >>
    /\ UNCHANGED walletPage
    /\ UNCHANGED logView
    /\ UNCHANGED faucetForm

cancelResetConfirm ==
    /\ showResetConfirm
    /\ showResetConfirm' = FALSE
    /\ UNCHANGED << nodeStatus, minerStatus, headlessStatus, headlessWallets, blockHeight,
                    hashRate, error, resetStatus, resetMessage, calls, events, alive >>
    /\ UNCHANGED walletPage
    /\ UNCHANGED logView
    /\ UNCHANGED faucetForm

ConfirmResetButton == showResetConfirm /\ ~(resetStatus = "resetting")

\* The guard of handleResetData: the only state in which it declines to call reset_data.
handleResetData_refuses == nodeStatus = "running"

handleResetData ==
    /\ ConfirmResetButton
    /\ IF handleResetData_refuses
       THEN /\ resetMessage' = "Stop the node before resetting data"
            /\ resetStatus' = "error"
            /\ UNCHANGED << calls, events, alive >>
       ELSE /\ CanCall
            /\ resetStatus' = "resetting"
            /\ Begin("handleResetData", "reset_data", NoWallet)
            /\ UNCHANGED resetMessage
    /\ UNCHANGED << nodeStatus, minerStatus, headlessStatus, headlessWallets, blockHeight,
                    hashRate, error, showResetConfirm >>
    /\ UNCHANGED walletPage
    /\ UNCHANGED logView
    /\ UNCHANGED faucetForm

handleResetData_reset_data(c, r) ==
    /\ c.h = "handleResetData" /\ c.cmd = "reset_data" /\ Ready(c, r)
    /\ IF r = "ok"
       THEN /\ resetMessage' = "reset done"
            /\ resetStatus' = "success"
            /\ showResetConfirm' = FALSE
       ELSE /\ resetMessage' = BackendError
            /\ resetStatus' = "error"
            /\ UNCHANGED showResetConfirm
    /\ Done(c)
    /\ UNCHANGED << nodeStatus, minerStatus, headlessStatus, headlessWallets, blockHeight,
                    hashRate, error >>
    /\ UNCHANGED walletPage
    /\ UNCHANGED logView
    /\ UNCHANGED faucetForm

----------------------------------------------------------------------------
\* Backend event listeners.

\* listen("node-terminated")
nodeTerminated(e) ==
    /\ e \in Undelivered /\ e.name = "node-terminated"
    /\ nodeStatus' = "stopped"
    /\ minerStatus' = "stopped"
    /\ IF e.payload # Some(0) /\ e.payload # null
       THEN error' = Some("Node exited with code")
       ELSE UNCHANGED error
    /\ events' = events (-) SetToBag({e})
    /\ UNCHANGED << headlessStatus, headlessWallets, blockHeight, hashRate,
                    showResetConfirm, resetStatus, resetMessage, calls, alive >>
    /\ UNCHANGED walletPage
    /\ UNCHANGED logView
    /\ UNCHANGED faucetForm

\* listen("miner-terminated")
minerTerminated(e) ==
    /\ e \in Undelivered /\ e.name = "miner-terminated"
    /\ minerStatus' = "stopped"
    /\ hashRate' = "0 H/s"
    /\ events' = events (-) SetToBag({e})
    /\ UNCHANGED << nodeStatus, headlessStatus, headlessWallets, blockHeight, error,
                    showResetConfirm, resetStatus, resetMessage, calls, alive >>
    /\ UNCHANGED walletPage
    /\ UNCHANGED logView
    /\ UNCHANGED faucetForm

\* listen("headless-terminated")
headlessTerminated(e) ==
    /\ e \in Undelivered /\ e.name = "headless-terminated"
    /\ headlessStatus' = [running |-> FALSE, port |-> null]
    /\ headlessWallets' = << >>
    /\ events' = events (-) SetToBag({e})
    /\ UNCHANGED << nodeStatus, minerStatus, blockHeight, hashRate, error,
                    showResetConfirm, resetStatus, resetMessage, calls, alive >>
    /\ UNCHANGED walletPage
    /\ UNCHANGED logView
    /\ UNCHANGED faucetForm

----------------------------------------------------------------------------
\* Status polling: the effect that runs fetchStatus at once and every 3 s while
\* nodeStatus = "running".

\* block_height of a get_node_status response (number | null).
Heights == {null} \cup {Some(n) : n \in 0..MaxHeight}

\* get_fullnode_balance responses.
FaucetBalances == {[available |-> a, locked |-> 0] : a \in {0, 50, 10000, 200000}}

fetchStatus ==
    /\ nodeStatus = "running"
    /\ CanCall
    /\ Begin("fetchStatus", "get_node_status", NoWallet)
    /\ UNCHANGED << console, walletPage >>
    /\ UNCHANGED logView
    /\ UNCHANGED faucetForm

fetchStatus_get_node_status(c, r) ==
    /\ c.h = "fetchStatus" /\ c.cmd = "get_node_status" /\ Ready(c, r)
    /\ IF r = "ok"
       THEN \E block_height \in Heights :
                IF block_height # null
                THEN blockHeight' = block_height[1]
                ELSE UNCHANGED blockHeight
       ELSE UNCHANGED blockHeight
    /\ Then(c, "fetchStatus", "get_fullnode_balance", NoWallet)
    /\ UNCHANGED << nodeStatus, minerStatus, headlessStatus, headlessWallets, hashRate,
                    error, showResetConfirm, resetStatus, resetMessage, walletPage >>
    /\ UNCHANGED logView
    /\ UNCHANGED faucetForm

fetchStatus_get_fullnode_balance(c, r) ==
    /\ c.h = "fetchStatus" /\ c.cmd = "get_fullnode_balance" /\ Ready(c, r)
    /\ IF r = "ok"
       THEN \E balance \in FaucetBalances : faucetBalance' = Some(balance)
       ELSE UNCHANGED faucetBalance
    /\ Done(c)
    /\ UNCHANGED << console, txResult, showCreateWallet, newSeed, newWalletId,
                    importSeed, creatingWallet >>
    /\ UNCHANGED logView
    /\ UNCHANGED faucetForm

----------------------------------------------------------------------------
\* The wallet page.  It renders its controls only while nodeStatus = "running",
\* and the wallet list only while headlessStatus.running.

WalletIds == {"w1", "w2"}

\* The one address the wallet service derives for wallet w.
Address(w) == << "address of", w >>

\* Responses of the wallet service.
StatusResponses == {[status |-> "Syncing", status_code |-> Some(ReadyCode - 1)],
                    [status |-> "Ready", status_code |-> Some(ReadyCode)]}
WalletBalances == {[available |-> 0, locked |-> 0]}
AddressLists(w) == {<< >>, << Address(w) >>}

Tracked == DOMAIN headlessWallets

\* headlessWallets.find((w) => w.wallet_id === walletId)
Find(walletId) ==
    LET hits == {k \in Tracked : headlessWallets[k].wallet_id = walletId}
    IN  IF hits = {} THEN null
        ELSE Some(headlessWallets[CHOOSE k \in hits : \A j \in hits : k <= j])

WalletPageShown == nodeStatus = "running"
WalletListShown == WalletPageShown /\ headlessStatus.running

\* "New Wallet" button and the inputs of the create-wallet modal.
openCreateWallet ==
    /\ WalletListShown
    /\ ~showCreateWallet
    /\ showCreateWallet' = TRUE
    /\ UNCHANGED << console, faucetBalance, txResult, newSeed, newWalletId, importSeed,
                    creatingWallet, calls, events, alive >>
    /\ UNCHANGED logView
    /\ UNCHANGED faucetForm

typeWalletId ==
    /\ WalletPageShown /\ showCreateWallet
    /\ \E id \in WalletIds : newWalletId # id /\ newWalletId' = id
    /\ UNCHANGED << console, faucetBalance, txResult, showCreateWallet, newSeed, importSeed,
                    creatingWallet, calls, events, alive >>
    /\ UNCHANGED logView
    /\ UNCHANGED faucetForm

typeImportSeed ==
    /\ WalletPageShown /\ showCreateWallet
    /\ newSeed = null /\ importSeed = ""
    /\ importSeed' = "seed"
    /\ UNCHANGED << console, faucetBalance, txResult, showCreateWallet, newSeed, newWalletId,
                    creatingWallet, calls, events, alive >>
    /\ UNCHANGED logView
    /\ UNCHANGED faucetForm

\* "Generate" button of the modal.
generateNewSeed ==
    /\ WalletPageShown /\ showCreateWallet
    /\ newSeed = null
    /\ CanCall
    /\ Begin("generateNewSeed", "generate_seed", NoWallet)
    /\ UNCHANGED << console, walletPage >>
    /\ UNCHANGED logView
    /\ UNCHANGED faucetForm

generateNewSeed_generate_seed(c, r) ==
    /\ c.h = "generateNewSeed" /\ c.cmd = "generate_seed" /\ Ready(c, r)
    /\ IF r = "ok"
       THEN /\ newSeed' = Some("seed")
            /\ importSeed' = ""
            /\ UNCHANGED error
       ELSE /\ error' = Some(BackendError)
            /\ UNCHANGED << newSeed, importSeed >>
    /\ Done(c)
    /\ UNCHANGED << nodeStatus, minerStatus, headlessStatus, headlessWallets, blockHeight,
                    hashRate, showResetConfirm, resetStatus, resetMessage, faucetBalance,
                    txResult, showCreateWallet, newWalletId, creatingWallet >>
    /\ UNCHANGED logView
    /\ UNCHANGED faucetForm

cancelCreateWallet ==
    /\ WalletPageShown /\ showCreateWallet
    /\ showCreateWallet' = FALSE
    /\ newSeed' = null
    /\ newWalletId' = ""
    /\ importSeed' = ""
    /\ UNCHANGED << console, faucetBalance, txResult, creatingWallet, calls, events, alive >>
    /\ UNCHANGED logView
    /\ UNCHANGED faucetForm

CreateWalletButton ==
    /\ WalletPageShown /\ showCreateWallet
    /\ ~(creatingWallet \/ newWalletId = "" \/ (newSeed = null /\ importSeed = ""))

createWallet ==
    /\ CreateWalletButton
    /\ Len(headlessWallets) < MaxWallets
    /\ LET seed == IF newSeed # null THEN newSeed[1] ELSE importSeed
       IN  IF seed = "" \/ newWalletId = ""
           THEN /\ error' = Some("Please provide wallet ID and seed phrase")
                /\ UNCHANGED << creatingWallet, calls, events, alive >>
           ELSE /\ CanCall
                /\ creatingWallet' = TRUE
                /\ Begin("createWallet", "create_headless_wallet", newWalletId)
                /\ UNCHANGED error
    /\ UNCHANGED << nodeStatus, minerStatus, headlessStatus, headlessWallets, blockHeight,
                    hashRate, showResetConfirm, resetStatus, resetMessage, faucetBalance,
                    txResult, showCreateWallet, newSeed, newWalletId, importSeed >>
    /\ UNCHANGED logView
    /\ UNCHANGED faucetForm

\* after `await invoke("create_headless_wallet")`; on success pollWalletStatus is
\* called and not awaited, and its first await (1 s, then the status request) is
\* in flight when createWallet returns.
createWallet_create_headless_wallet(c, r) ==
    /\ c.h = "createWallet" /\ c.cmd = "create_headless_wallet" /\ Ready(c, r)
    /\ IF r = "ok"
       THEN /\ headlessWallets' = Append(headlessWallets,
                    [wallet_id |-> c.w, status |-> "starting", status_code |-> null,
                     balance |-> null, addresses |-> null, seed |-> "seed"])
            /\ showCreateWallet' = FALSE
            /\ newSeed' = null
            /\ newWalletId' = ""
            /\ importSeed' = ""
            /\ Then(c, "pollWalletStatus", "get_headless_wallet_status", c.w)
            /\ UNCHANGED error
       ELSE /\ error' = Some(BackendError)
            /\ Done(c)
            /\ UNCHANGED << headlessWallets, showCreateWallet, newSeed, newWalletId,
                            importSeed >>
    /\ creatingWallet' = FALSE
    /\ UNCHANGED << nodeStatus, minerStatus, headlessStatus, blockHeight, hashRate,
                    showResetConfirm, resetStatus, resetMessage, faucetBalance, txResult >>
    /\ UNCHANGED logView
    /\ UNCHANGED faucetForm

\* Promise.all of get_headless_wallet_balance and get_headless_wallet_addresses,
\* awaited as one.
WalletDetails == "get_headless_wallet_balance, get_headless_wallet_addresses"

\* pollWalletStatus without the break on the ready code.
pollWalletStatus_polls_on_when_ready(c, r) ==
    /\ c.h = "pollWalletStatus" /\ c.cmd = "get_headless_wallet_status" /\ Ready(c, r)
    /\ IF r = "ok"
       THEN \E status \in StatusResponses :
              /\ headlessWallets' =
                    [k \in Tracked |->
                        IF headlessWallets[k].wallet_id = c.w
                        THEN [headlessWallets[k] EXCEPT !.status = status.status,
                                                        !.status_code = status.status_code]
                        ELSE headlessWallets[k]]
              /\ IF c.i + 1 < maxAttempts
                 THEN /\ calls' = (calls (-) SetToBag({c})) (+)
                             SetToBag({[c EXCEPT !.i = c.i + 1]})
                      /\ UNCHANGED << events, alive >>
                 ELSE Done(c)
       ELSE /\ Done(c)
            /\ UNCHANGED headlessWallets
    /\ UNCHANGED << nodeStatus, minerStatus, headlessStatus, blockHeight, hashRate, error,
                    showResetConfirm, resetStatus, resetMessage, walletPage >>
    /\ UNCHANGED logView
    /\ UNCHANGED faucetForm

\* pollWalletStatus writing the status with an upsert: a wallet that is not in
\* the list is put into it.
pollWalletStatus_tracks_again(c, r) ==
    /\ c.h = "pollWalletStatus" /\ c.cmd = "get_headless_wallet_status" /\ Ready(c, r)
    /\ IF r = "ok"
       THEN \E status \in StatusResponses :
              /\ headlessWallets' =
                    IF \E k \in Tracked : headlessWallets[k].wallet_id = c.w
                    THEN [k \in Tracked |->
                            IF headlessWallets[k].wallet_id = c.w
                            THEN [headlessWallets[k] EXCEPT !.status = status.status,
                                                            !.status_code = status.status_code]
                            ELSE headlessWallets[k]]
                    ELSE Append(headlessWallets,
                                [wallet_id |-> c.w, status |-> status.status,
                                 status_code |-> status.status_code,
                                 balance |-> null, addresses |-> null, seed |-> "seed"])
              /\ IF status.status_code = Some(ReadyCode)
                 THEN Then(c, "loadWalletDetails", WalletDetails, c.w)
                 ELSE IF c.i + 1 < maxAttempts
                      THEN /\ calls' = (calls (-) SetToBag({c})) (+)
                                  SetToBag({[c EXCEPT !.i = c.i + 1]})
                           /\ UNCHANGED << events, alive >>
                      ELSE Done(c)
       ELSE /\ Done(c)
            /\ UNCHANGED headlessWallets
    /\ UNCHANGED << nodeStatus, minerStatus, headlessStatus, blockHeight, hashRate, error,
                    showResetConfirm, resetStatus, resetMessage, walletPage >>
    /\ UNCHANGED logView
    /\ UNCHANGED faucetForm

\* One round of the loop of pollWalletStatus, attempt c.i.
pollWalletStatus_get_headless_wallet_status(c, r) ==
    /\ c.h = "pollWalletStatus" /\ c.cmd = "get_headless_wallet_status" /\ Ready(c, r)
    /\ IF r = "ok"
       THEN \E status \in StatusResponses :
              /\ headlessWallets' =
                    [k \in Tracked |->
                        IF headlessWallets[k].wallet_id = c.w
                        THEN [headlessWallets[k] EXCEPT !.status = status.status,
                                                        !.status_code = status.status_code]
                        ELSE headlessWallets[k]]
              /\ IF status.status_code = Some(ReadyCode)
                 THEN Then(c, "loadWalletDetails", WalletDetails, c.w)
                 ELSE IF c.i + 1 < maxAttempts
                      THEN /\ calls' = (calls (-) SetToBag({c})) (+)
                                  SetToBag({[c EXCEPT !.i = c.i + 1]})
                           /\ UNCHANGED << events, alive >>
                      ELSE Done(c)
       ELSE /\ Done(c)
            /\ UNCHANGED headlessWallets
    /\ UNCHANGED << nodeStatus, minerStatus, headlessStatus, blockHeight, hashRate, error,
                    showResetConfirm, resetStatus, resetMessage, walletPage >>
    /\ UNCHANGED logView
    /\ UNCHANGED faucetForm

\* "Refresh" button of a tracked wallet.
loadWalletDetails ==
    /\ WalletListShown
    /\ CanCall
    /\ \E k \in Tracked :
          Begin("loadWalletDetails", WalletDetails, headlessWallets[k].wallet_id)
    /\ UNCHANGED << console, walletPage >>
    /\ UNCHANGED logView
    /\ UNCHANGED faucetForm

loadWalletDetails_all(c, r) ==
    /\ c.h = "loadWalletDetails" /\ c.cmd = WalletDetails /\ Ready(c, r)
    /\ IF r = "ok"
       THEN \E balance \in WalletBalances, addresses \in AddressLists(c.w) :
              headlessWallets' =
                    [k \in Tracked |->
                        IF headlessWallets[k].wallet_id = c.w
                        THEN [headlessWallets[k] EXCEPT !.balance = Some(balance),
                                                        !.addresses = Some(addresses)]
                        ELSE headlessWallets[k]]
       ELSE UNCHANGED headlessWallets
    /\ Done(c)
    /\ UNCHANGED << nodeStatus, minerStatus, headlessStatus, blockHeight, hashRate, error,
                    showResetConfirm, resetStatus, resetMessage, walletPage >>
    /\ UNCHANGED logView
    /\ UNCHANGED faucetForm

\* "Close" button of a tracked wallet.
closeWallet ==
    /\ WalletListShown
    /\ CanCall
    /\ \E k \in Tracked :
          Begin("closeWallet", "close_headless_wallet", headlessWallets[k].wallet_id)
    /\ UNCHANGED << console, walletPage >>
    /\ UNCHANGED logView
    /\ UNCHANGED faucetForm

closeWallet_close_headless_wallet(c, r) ==
    /\ c.h = "closeWallet" /\ c.cmd = "close_headless_wallet" /\ Ready(c, r)
    /\ IF r = "ok"
       THEN /\ headlessWallets' = SelectSeq(headlessWallets, LAMBDA x : x.wallet_id # c.w)
            /\ UNCHANGED error
       ELSE /\ error' = Some(BackendError)
            /\ UNCHANGED headlessWallets
    /\ Done(c)
    /\ UNCHANGED << nodeStatus, minerStatus, headlessStatus, blockHeight, hashRate,
                    showResetConfirm, resetStatus, resetMessage, walletPage >>
    /\ UNCHANGED logView
    /\ UNCHANGED faucetForm

\* Amounts (in HTR) typed into the per-wallet send form.
SendAmounts == {1}

\* The per-wallet "Send" button: rendered for a ready wallet, it calls
\* sendFromHeadlessWallet when both inputs are filled.
SendButton(k) ==
    /\ WalletListShown
    /\ k \in Tracked
    /\ headlessWallets[k].status_code = Some(ReadyCode)

sendFromHeadlessWallet ==
    /\ CanCall
    /\ \E k \in Tracked, amount \in SendAmounts :
          /\ SendButton(k)
          /\ calls' = calls (+) SetToBag({CallWith("sendFromHeadlessWallet",
                          "headless_wallet_send_tx", headlessWallets[k].wallet_id, "sent",
                          0, amount * 100)})
    /\ UNCHANGED << console, walletPage, events, alive >>
    /\ UNCHANGED logView
    /\ UNCHANGED faucetForm

sendFromHeadlessWallet_headless_wallet_send_tx(c, r) ==
    /\ c.h = "sendFromHeadlessWallet" /\ c.cmd = "headless_wallet_send_tx" /\ Ready(c, r)
    /\ IF r = "ok"
       THEN /\ txResult' = Some([type |-> "success", message |-> "tx"])
            /\ Then(c, "loadWalletDetails", WalletDetails, c.w)
       ELSE /\ txResult' = Some([type |-> "error", message |-> BackendError])
            /\ Done(c)
    /\ UNCHANGED << console, faucetBalance, showCreateWallet, newSeed, newWalletId,
                    importSeed, creatingWallet >>
    /\ UNCHANGED logView
    /\ UNCHANGED faucetForm

\* The "Fund" button of a tracked wallet.
FundButton(k) ==
    /\ WalletListShown
    /\ k \in Tracked
    /\ ~(headlessWallets[k].status_code # Some(ReadyCode)
         \/ faucetBalance = null \/ faucetBalance[1].available = 0)

\* Math.floor(available * 0.1); on the integers below 2^53 this is available \div 10.
tenPercent(available) == available \div 10

Max(a, b) == IF a >= b THEN a ELSE b
Min(a, b) == IF a <= b THEN a ELSE b

\* fundAmount without the minimum of 1 HTR.
fundAmount_no_minimum(available) == Min(tenPercent(available), MaxFund)

\* Math.max(100, Math.min(tenPercent, 10000))
fundAmount(available) == Max(MinFund, Min(tenPercent(available), MaxFund))

\* fundWallet sending from the balance the page already shows, without reading it again.
fundWallet_stale_balance ==
    /\ \E k \in Tracked :
          /\ FundButton(k)
          /\ LET walletId == headlessWallets[k].wallet_id
                 wallet == Find(walletId)
             IN  IF wallet = null \/ wallet[1].addresses = null
                       \/ Len(wallet[1].addresses[1]) = 0
                 THEN /\ error' = Some("Wallet has no addresses. Wait for it to sync.")
                      /\ UNCHANGED << calls, events, alive >>
                 ELSE /\ CanCall
                      /\ calls' = calls (+)
                             SetToBag({CallWith("fundWallet", "send_tx", walletId, "sent", 0,
                                                fundAmount(faucetBalance[1].available))})
                      /\ UNCHANGED << error, events, alive >>
    /\ UNCHANGED << nodeStatus, minerStatus, headlessStatus, headlessWallets, blockHeight,
                    hashRate, showResetConfirm, resetStatus, resetMessage, walletPage >>
    /\ UNCHANGED logView
    /\ UNCHANGED faucetForm

fundWallet ==
    /\ \E k \in Tracked :
          /\ FundButton(k)
          /\ LET walletId == headlessWallets[k].wallet_id
                 wallet == Find(walletId)
             IN  IF wallet = null \/ wallet[1].addresses = null
                       \/ Len(wallet[1].addresses[1]) = 0
                 THEN /\ error' = Some("Wallet has no addresses. Wait for it to sync.")
                      /\ UNCHANGED << calls, events, alive >>
                 ELSE /\ CanCall
                      /\ Begin("fundWallet", "get_fullnode_balance", walletId)
                      /\ UNCHANGED error
    /\ UNCHANGED << nodeStatus, minerStatus, headlessStatus, headlessWallets, blockHeight,
                    hashRate, showResetConfirm, resetStatus, resetMessage, walletPage >>
    /\ UNCHANGED logView
    /\ UNCHANGED faucetForm

\* fundWallet_get_fullnode_balance without the check of an empty faucet.
fundWallet_get_fullnode_balance_unchecked(c, r) ==
    /\ c.h = "fundWallet" /\ c.cmd = "get_fullnode_balance" /\ Ready(c, r)
    /\ IF r = "ok"
       THEN \E freshBalance \in FaucetBalances :
              /\ faucetBalance' = Some(freshBalance)
              /\ calls' = (calls (-) SetToBag({c})) (+)
                     SetToBag({CallWith("fundWallet", "send_tx", c.w, "sent", 0,
                                        fundAmount(freshBalance.available))})
              /\ UNCHANGED << error, events, alive >>
       ELSE /\ error' = Some("Failed to fetch faucet balance. Try again.")
            /\ Done(c)
            /\ UNCHANGED faucetBalance
    /\ UNCHANGED << nodeStatus, minerStatus, headlessStatus, headlessWallets, blockHeight,
                    hashRate, showResetConfirm, resetStatus, resetMessage, txResult,
                    showCreateWallet, newSeed, newWalletId, importSeed, creatingWallet >>
    /\ UNCHANGED logView
    /\ UNCHANGED faucetForm

\* after `await invoke("get_fullnode_balance")`
fundWallet_get_fullnode_balance(c, r) ==
    /\ c.h = "fundWallet" /\ c.cmd = "get_fullnode_balance" /\ Ready(c, r)
    /\ IF r = "ok"
       THEN \E freshBalance \in FaucetBalances :
              /\ faucetBalance' = Some(freshBalance)
              /\ IF freshBalance.available <= 0
                 THEN /\ error' = Some("Faucet has no available funds. Wait for blocks to be mined and confirmed.")
                      /\ Done(c)
                 ELSE /\ calls' = (calls (-) SetToBag({c})) (+)
                             SetToBag({CallWith("fundWallet", "send_tx", c.w, "sent", 0,
                                                fundAmount(freshBalance.available))})
                      /\ UNCHANGED << error, events, alive >>
       ELSE /\ error' = Some("Failed to fetch faucet balance. Try again.")
            /\ Done(c)
            /\ UNCHANGED faucetBalance
    /\ UNCHANGED << nodeStatus, minerStatus, headlessStatus, headlessWallets, blockHeight,
                    hashRate, showResetConfirm, resetStatus, resetMessage, txResult,
                    showCreateWallet, newSeed, newWalletId, importSeed, creatingWallet >>
    /\ UNCHANGED logView
    /\ UNCHANGED faucetForm

\* after `await invoke("send_tx")`; on success loadWalletDetails runs 1 s later.
fundWallet_send_tx(c, r) ==
    /\ c.h = "fundWallet" /\ c.cmd = "send_tx" /\ Ready(c, r)
    /\ IF r = "ok"
       THEN /\ txResult' = Some([type |-> "success", message |-> "Sent"])
            /\ Then(c, "loadWalletDetails", WalletDetails, c.w)
            /\ UNCHANGED error
       ELSE /\ error' = Some(BackendError)
            /\ Done(c)
            /\ UNCHANGED txResult
    /\ UNCHANGED << nodeStatus, minerStatus, headlessStatus, headlessWallets, blockHeight,
                    hashRate, showResetConfirm, resetStatus, resetMessage, faucetBalance,
                    showCreateWallet, newSeed, newWalletId, importSeed, creatingWallet >>
    /\ UNCHANGED logView
    /\ UNCHANGED faucetForm

----------------------------------------------------------------------------
\* The log view.  A line of output is a sequence of characters; ESC is the
\* character \x1B.

LogLimit == 1000       \* addLog: prev.slice(-1000)
MaxLogs == 2           \* entries retained while the severity of lines is explored
MaxLineIds == 3        \* lines accepted while the severity of lines is explored
MaxLogId == 1003       \* lines accepted while the retention is explored

LogSources == {"node", "miner", "headless"}

UpperCase == << "A", "B", "C", "D", "E", "F", "G", "H", "I", "J", "K", "L", "M",
                "N", "O", "P", "Q", "R", "S", "T", "U", "V", "W", "X", "Y", "Z" >>
LowerCase == << "a", "b", "c", "d", "e", "f", "g", "h", "i", "j", "k", "l", "m",
                "n", "o", "p", "q", "r", "s", "t", "u", "v", "w", "x", "y", "z" >>

\* String.prototype.toLowerCase
toLowerCase(str) ==
    [i \in 1..Len(str) |->
        IF \E k \in 1..26 : UpperCase[k] = str[i]
        THEN LowerCase[CHOOSE k \in 1..26 : UpperCase[k] = str[i]]
        ELSE str[i]]

\* String.prototype.includes
includes(str, search) ==
    \E i \in 0..(Len(str) - Len(search)) : SubSeq(str, i + 1, i + Len(search)) = search

\* String.prototype.trim leaves nothing: every character is white space.
WhiteSpace == {" ", "\t", "\n", "\r"}
trimIsEmpty(str) == \A i \in 1..Len(str) : str[i] \in WhiteSpace

\* parseLogLevel without the conversion to lower case.
parseLogLevel_case_sensitive(line) ==
    IF includes(line, << "[", "e", "r", "r", "o", "r", "]" >>)
          \/ includes(line, << "e", "r", "r", "o", "r", ":" >>) THEN "error"
    ELSE IF includes(line, << "[", "w", "a", "r", "n" >>)
          \/ includes(line, << "w", "a", "r", "n", "i", "n", "g" >>) THEN "warning"
    ELSE IF includes(line, << "[", "d", "e", "b", "u", "g", "]" >>) THEN "debug"
    ELSE "info"

parseLogLevel(line) ==
    LET lower == toLowerCase(line)
    IN  IF includes(lower, << "[", "e", "r", "r", "o", "r", "]" >>)
              \/ includes(lower, << "e", "r", "r", "o", "r", ":" >>) THEN "error"
        ELSE IF includes(lower, << "[", "w", "a", "r", "n" >>)
              \/ includes(lower, << "w", "a", "r", "n", "i", "n", "g" >>) THEN "warning"
        ELSE IF includes(lower, << "[", "d", "e", "b", "u", "g", "]" >>) THEN "debug"
        ELSE "info"

\* stripAnsi removes every match of /\x1B\[[0-9;]*[mK]/g.
AnsiParams == {"0", "1", "2", "3", "4", "5", "6", "7", "8", "9", ";"}

\* The index after the longest run of [0-9;] that starts at i.
RECURSIVE afterParams(_, _)
afterParams(str, i) ==
    IF i <= Len(str) /\ str[i] \in AnsiParams THEN afterParams(str, i + 1) ELSE i

\* The index of the last character of the match that starts at i, 0 if none does.
ansiMatchEnd(str, i) ==
    IF str[i] = "ESC" /\ i + 1 <= Len(str) /\ str[i + 1] = "["
    THEN LET j == afterParams(str, i + 2)
         IN  IF j <= Len(str) /\ str[j] \in {"m", "K"} THEN j ELSE 0
    ELSE 0

RECURSIVE stripAnsiFrom(_, _)
stripAnsiFrom(str, i) ==
    IF i > Len(str) THEN << >>
    ELSE LET end == ansiMatchEnd(str, i)
         IN  IF end > 0 THEN stripAnsiFrom(str, end + 1)
             ELSE << str[i] >> \o stripAnsiFrom(str, i + 1)

stripAnsi(str) == stripAnsiFrom(str, 1)

\* prev.slice(-n)
sliceLast(prev, n) ==
    IF Len(prev) <= n THEN prev ELSE SubSeq(prev, Len(prev) - n + 1, Len(prev))

\* Output lines delivered by the node-log, node-error, miner-log and headless-log
\* events.
Lines ==
    { << "[", "E", "R", "R", "O", "R", "]", " ", "c", "o", "n", "n", "e", "c", "t", "i", "o", "n", " ", "r", "e", "f", "u", "s", "e", "d" >>,
      << "n", "o", "d", "e", " ", "s", "t", "a", "r", "t", "e", "d" >>,
      << "E", "r", "r", "o", "r", ":", " ", "b", "o", "o", "m" >>,
      << "[", "w", "a", "r", "n", "]", " ", "e", "r", "r", "o", "r", ":", " ", "d", "i", "s", "k" >>,
      << "[", "W", "a", "r", "n", "i", "n", "g", "]", " ", "l", "o", "w", " ", "p", "e", "e", "r", "s" >>,
      << "U", "s", "e", "r", "W", "a", "r", "n", "i", "n", "g", " ", "[", "d", "e", "b", "u", "g", "]" >>,
      << "[", "D", "E", "B", "U", "G", "]", " ", "t", "i", "c", "k" >>,
      << "d", "e", "b", "u", "g", " ", "e", "r", "r", "o", "r" >>,
      << "ESC", "[", "3", "1", "m", "[", "e", "r", "r", "o", "r", "]", "ESC", "[", "0", "m", " ", "x" >>,
      << "[", "e", "r", "r", "ESC", "[", "1", ";", "3", "1", "m", "o", "r", "]", " ", "x" >>,
      << "ESC", "[", "1", "2", " ", "w", "a", "r", "n" >>,
      << "ESC", "[", "K", "[", "d", "e", "b", "u", "g" >>,
      << "ESC", "[", "ESC", "[", "0", "m", "0", "m", " ", "x" >>,
      << " ", "\t" >>,
      << "ESC", "[", "0", "m" >>,
      << >> }

\* addLog computing the severity on the line as it arrived.
addLog_level_of_raw_line(source, message) ==
    /\ LET cleanMessage == stripAnsi(message)
       IN  IF trimIsEmpty(cleanMessage)
           THEN UNCHANGED << logs, logId >>
           ELSE /\ logs' = Append(sliceLast(logs, LogLimit),
                                  [id |-> logId, source |-> source,
                                   level |-> parseLogLevel(message),
                                   message |-> cleanMessage])
                /\ logId' = logId + 1
    /\ UNCHANGED << console, walletPage, faucetForm, calls, events, alive >>

\* addLog giving every entry the id 0.
addLog_same_id(source, message) ==
    /\ LET cleanMessage == stripAnsi(message)
       IN  IF trimIsEmpty(cleanMessage)
           THEN UNCHANGED << logs, logId >>
           ELSE /\ logs' = Append(sliceLast(logs, LogLimit),
                                  [id |-> 0, source |-> source,
                                   level |-> parseLogLevel(cleanMessage),
                                   message |-> cleanMessage])
                /\ logId' = logId + 1
    /\ UNCHANGED << console, walletPage, faucetForm, calls, events, alive >>

\* addLog, called by the listeners of the log events.  The timestamp of an
\* entry, on which nothing depends, is left out.
\* What addLog does to the log view.
appendLog(source, message) ==
    LET cleanMessage == stripAnsi(message)
    IN  IF trimIsEmpty(cleanMessage)
        THEN UNCHANGED << logs, logId >>
        ELSE /\ logs' = Append(sliceLast(logs, LogLimit),
                               [id |-> logId, source |-> source,
                                level |-> parseLogLevel(cleanMessage),
                                message |-> cleanMessage])
             /\ logId' = logId + 1

\* A *-log event (node-log, node-error, miner-log, headless-log) is delivered:
\* its listener calls addLog and nothing else.
addLog(source, message) ==
    /\ appendLog(source, message)
    /\ UNCHANGED << console, walletPage, faucetForm, calls, events, alive >>

\* "Clear Logs" button.
clearLogs ==
    /\ logs' = << >>
    /\ UNCHANGED logId
    /\ UNCHANGED << console, walletPage, faucetForm, calls, events, alive >>

----------------------------------------------------------------------------
\* The miner-stats listener: the hash rate shown is read out of the miner's
\* report with /(\d+\.?\d*)\s*(k|M|G|T)?hash\/s/i.

Digit == {"0", "1", "2", "3", "4", "5", "6", "7", "8", "9"}

\* String.prototype.toUpperCase
toUpperCase(str) ==
    [i \in 1..Len(str) |->
        IF \E k \in 1..26 : LowerCase[k] = str[i]
        THEN UpperCase[CHOOSE k \in 1..26 : LowerCase[k] = str[i]]
        ELSE str[i]]

\* The index after the longest run of characters of class that starts at i.
RECURSIVE afterRun(_, _, _)
afterRun(str, i, class) ==
    IF i <= Len(str) /\ str[i] \in class THEN afterRun(str, i + 1, class) ELSE i

\* The characters of str as one string.
RECURSIVE join(_)
join(str) == IF str = << >> THEN "" ELSE Head(str) \o join(Tail(str))

\* The match of the pattern that starts at i: its groups [value, unit], or null.
\* Every quantifier is greedy and none can give a character back to what
\* follows it, so the match is the greedy one or there is none.
hashRateMatchAt(str, i) ==
    IF ~(str[i] \in Digit) THEN null
    ELSE LET a == afterRun(str, i, Digit)                              \* \d+
             b == IF a <= Len(str) /\ str[a] = "." THEN a + 1 ELSE a   \* \.?
             c == afterRun(str, b, Digit)                              \* \d*
             d == afterRun(str, c, WhiteSpace)                         \* \s*
             prefixed == d <= Len(str)
                           /\ toLowerCase(<< str[d] >>)[1] \in {"k", "m", "g", "t"}
             h == IF prefixed THEN d + 1 ELSE d                        \* (k|M|G|T)?
         IN  IF h + 5 <= Len(str)
                  /\ toLowerCase(SubSeq(str, h, h + 5)) = << "h", "a", "s", "h", "/", "s" >>
             THEN Some([value |-> SubSeq(str, i, c - 1),
                        unit |-> IF prefixed THEN Some(str[d]) ELSE null])
             ELSE null

\* event.payload.match(...): the leftmost match.
hashRateMatch(str) ==
    LET starts == {i \in 1..Len(str) : hashRateMatchAt(str, i) # null}
    IN  IF starts = {} THEN null
        ELSE hashRateMatchAt(str, CHOOSE i \in starts : \A j \in starts : i <= j)

\* Reports followed in the log view.
MaxStats == 1

\* Reports of the miner.
StatsLines ==
    { << "1", "4", "2", "3", " ", "k", "h", "a", "s", "h", "/", "s" >>,
      << "r", "a", "t", "e", ":", " ", "1", ".", "5", "M", "H", "a", "s", "h", "/", "s" >>,
      << "7", " ", "h", "a", "s", "h", "/", "s" >>,
      << "1", ".", "5", " ", "M", "H", "/", "s" >>,
      << "n", "o", " ", "s", "h", "a", "r", "e", "s" >> }

\* The miner reports its hash rate.
MinerReports(line) ==
    /\ alive["miner"]
    /\ Pending("miner-stats") < MaxEvents
    /\ events' = events (+) SetToBag({Event("miner-stats", line)})
    /\ UNCHANGED << console, walletPage, logView, faucetForm, calls, alive >>

minerStats(e) ==
    /\ e \in Undelivered /\ e.name = "miner-stats"
    /\ events' = events (-) SetToBag({e})
    /\ LET match == hashRateMatch(e.payload)
       IN  IF match # null
           THEN LET value == join(match[1].value)
                    unit == IF match[1].unit # null
                            THEN join(toUpperCase(match[1].unit)) \o "H/s"
                            ELSE "H/s"
                IN  hashRate' = value \o " " \o unit
           ELSE UNCHANGED hashRate
    /\ appendLog("miner", e.payload)
    /\ UNCHANGED << nodeStatus, minerStatus, headlessStatus, headlessWallets, blockHeight,
                    error, showResetConfirm, resetStatus, resetMessage >>
    /\ UNCHANGED << walletPage, faucetForm, calls, alive >>

----------------------------------------------------------------------------
\* The faucet form of the wallet page: destination address, amount, and the
\* "Send from Faucet" button.

\* What is typed into the two inputs; the amount is a string of characters.
FaucetAddresses == {"", "address"}
FaucetAmounts == { << >>, << "5" >>, << "1", "0", "0" >> }

DigitValue(ch) == CHOOSE n \in 0..9 : << "0", "1", "2", "3", "4", "5", "6", "7", "8", "9" >>[n + 1] = ch

\* parseFloat on a non-empty string of digits.
RECURSIVE parseFloat(_)
parseFloat(str) ==
    IF Len(str) = 1 THEN DigitValue(str[1])
    ELSE 10 * parseFloat(SubSeq(str, 1, Len(str) - 1)) + DigitValue(str[Len(str)])

typeFaucetAddress ==
    /\ WalletPageShown
    /\ \E address \in FaucetAddresses : faucetAddress # address /\ faucetAddress' = address
    /\ UNCHANGED << console, walletPage, logView, faucetAmount, sendingTx, calls, events, alive >>

typeFaucetAmount ==
    /\ WalletPageShown
    /\ \E amount \in FaucetAmounts : faucetAmount # amount /\ faucetAmount' = amount
    /\ UNCHANGED << console, walletPage, logView, faucetAddress, sendingTx, calls, events, alive >>

SendFromFaucetButton ==
    /\ WalletPageShown
    /\ ~(sendingTx \/ faucetAddress = "" \/ faucetAmount = << >>)

\* handleSendTx_send_tx with setSendingTx(false) at the end of the try block
\* instead of a finally block.
handleSendTx_send_tx_no_finally(c, r) ==
    /\ c.h = "handleSendTx" /\ c.cmd = "send_tx" /\ Ready(c, r)
    /\ IF r = "ok"
       THEN /\ txResult' = Some([type |-> "success", message |-> "tx"])
            /\ faucetAddress' = ""
            /\ faucetAmount' = << "1", "0", "0" >>
            /\ sendingTx' = FALSE
       ELSE /\ txResult' = Some([type |-> "error", message |-> BackendError])
            /\ UNCHANGED << faucetAddress, faucetAmount, sendingTx >>
    /\ Done(c)
    /\ UNCHANGED << console, faucetBalance, showCreateWallet, newSeed, newWalletId,
                    importSeed, creatingWallet >>
    /\ UNCHANGED logView

handleSendTx ==
    /\ SendFromFaucetButton
    /\ IF faucetAddress = "" \/ faucetAmount = << >>
       THEN /\ txResult' = Some([type |-> "error",
                                 message |-> "Please enter address and amount"])
            /\ UNCHANGED << sendingTx, calls, events, alive >>
       ELSE /\ CanCall
            /\ sendingTx' = TRUE
            /\ txResult' = null
            /\ LET amountInCents == parseFloat(faucetAmount) * 100
               IN  calls' = calls (+) SetToBag({CallWith("handleSendTx", "send_tx",
                                 NoWallet, "sent", 0, amountInCents)})
            /\ UNCHANGED << events, alive >>
    /\ UNCHANGED << console, faucetBalance, showCreateWallet, newSeed, newWalletId,
                    importSeed, creatingWallet >>
    /\ UNCHANGED << faucetAddress, faucetAmount >>
    /\ UNCHANGED logView

\* after `await invoke("send_tx")`, with the finally block
handleSendTx_send_tx(c, r) ==
    /\ c.h = "handleSendTx" /\ c.cmd = "send_tx" /\ Ready(c, r)
    /\ IF r = "ok"
       THEN /\ txResult' = Some([type |-> "success", message |-> "tx"])
            /\ faucetAddress' = ""
            /\ faucetAmount' = << "1", "0", "0" >>
       ELSE /\ txResult' = Some([type |-> "error", message |-> BackendError])
            /\ UNCHANGED << faucetAddress, faucetAmount >>
    /\ sendingTx' = FALSE
    /\ Done(c)
    /\ UNCHANGED << console, faucetBalance, showCreateWallet, newSeed, newWalletId,
                    importSeed, creatingWallet >>
    /\ UNCHANGED logView

----------------------------------------------------------------------------
\* The console with its three supervised services: every lifecycle handler, every
\* *-terminated listener, every process free to exit.

Next ==
    \/ handleStartNode
    \/ handleStopNode
    \/ handleStartMiner
    \/ handleStopMiner
    \/ startHeadless
    \/ stopHeadless
    \/ \E c \in InFlight, r \in {"ok", "err"} :
        \/ handleStartNode_start_node(c, r)
        \/ handleStartNode_start_explorer_server(c, r)
        \/ handleStartNode_start_headless(c, r)
        \/ handleStopNode_dependents(c, r)
        \/ handleStopNode_stop_node(c, r)
        \/ handleStartMiner_start_miner(c, r)
        \/ handleStopMiner_stop_miner(c, r)
        \/ startHeadless_start_headless(c, r)
        \/ stopHeadless_stop_headless(c, r)
    \/ \E e \in Undelivered :
        \/ nodeTerminated(e)
        \/ minerTerminated(e)
        \/ headlessTerminated(e)
    \/ \E s \in Services : ProcessExit(s)

Spec == Init /\ [][Next]_vars

\* The "Start Network" / "Stop Network" workflow alone: the node and the wallet
\* service it starts and stops with it.
NextNode ==
    \/ handleStartNode
    \/ handleStopNode
    \/ \E c \in InFlight, r \in {"ok", "err"} :
        \/ handleStartNode_start_node(c, r)
        \/ handleStartNode_start_explorer_server(c, r)
        \/ handleStartNode_start_headless(c, r)
        \/ handleStopNode_dependents(c, r)
        \/ handleStopNode_stop_node(c, r)
    \/ \E e \in Undelivered :
        \/ nodeTerminated(e)
        \/ headlessTerminated(e)
    \/ \E s \in {"node", "headless"} : ProcessExit(s)

SpecNode == Init /\ [][NextNode]_vars

\* The node workflow together with the settings page's "Reset Data".
NextReset ==
    \/ handleStartNode
    \/ handleStopNode
    \/ openResetConfirm
    \/ cancelResetConfirm
    \/ handleResetData
    \/ \E c \in InFlight, r \in {"ok", "err"} :
        \/ handleStartNode_start_node(c, r)
        \/ handleStartNode_start_explorer_server(c, r)
        \/ handleStartNode_start_headless(c, r)
        \/ handleStopNode_dependents(c, r)
        \/ handleStopNode_stop_node(c, r)
        \/ handleResetData_reset_data(c, r)
    \/ \E e \in Undelivered :
        \/ nodeTerminated(e)
        \/ headlessTerminated(e)
    \/ \E s \in {"node", "headless"} : ProcessExit(s)

SpecReset == Init /\ [][NextReset]_vars

\* The wallet page on top of a started network: the node workflow that brings
\* node and wallet service up, and the wallets' creation, polling, refresh,
\* closing and sending.
NextWallet ==
    \/ handleStartNode
    \/ openCreateWallet
    \/ typeWalletId /\ newWalletId' = "w1"
    \/ typeImportSeed
    \/ generateNewSeed
    \/ cancelCreateWallet
    \/ createWallet
    \/ loadWalletDetails
    \/ closeWallet
    \/ sendFromHeadlessWallet
    \/ \E c \in InFlight, r \in {"ok", "err"} :
        \/ handleStartNode_start_node(c, r)
        \/ handleStartNode_start_explorer_server(c, r)
        \/ handleStartNode_start_headless(c, r)
        \/ generateNewSeed_generate_seed(c, r)
        \/ createWallet_create_headless_wallet(c, r)
        \/ pollWalletStatus_get_headless_wallet_status(c, r)
        \/ loadWalletDetails_all(c, r)
        \/ closeWallet_close_headless_wallet(c, r)
        \/ sendFromHeadlessWallet_headless_wallet_send_tx(c, r)

SpecWallet == Init /\ [][NextWallet]_vars

\* Funding a wallet from the faucet: the node workflow, the status polling that
\* fills faucetBalance, the creation of a wallet, and fundWallet.
NextFund ==
    \/ handleStartNode
    \/ fetchStatus
    \/ openCreateWallet
    \/ typeWalletId /\ newWalletId' = "w1"
    \/ typeImportSeed
    \/ headlessWallets = << >> /\ createWallet      \* one wallet to fund
    \/ fundWallet
    \/ \E c \in InFlight, r \in {"ok", "err"} :
        \/ handleStartNode_start_node(c, r)
        \/ handleStartNode_start_explorer_server(c, r)
        \/ handleStartNode_start_headless(c, r)
        \/ fetchStatus_get_node_status(c, r)
        \/ fetchStatus_get_fullnode_balance(c, r)
        \/ createWallet_create_headless_wallet(c, r)
        \/ pollWalletStatus_get_headless_wallet_status(c, r)
        \/ loadWalletDetails_all(c, r)
        \/ fundWallet_get_fullnode_balance(c, r)
        \/ fundWallet_send_tx(c, r)

SpecFund == Init /\ [][NextFund]_vars

\* The readiness polling of one wallet at a time: the node workflow, the creation
\* of a wallet while no polling is under way, the polling and the closing of
\* wallets.  Every status request is answered, with a status or with an error.
PollCalls == {c \in InFlight : c.h = "pollWalletStatus"}

NextPoll ==
    \/ handleStartNode
    \/ openCreateWallet
    \/ typeWalletId /\ newWalletId' = "w1"
    \/ typeImportSeed
    \/ PollCalls = {} /\ createWallet
    \/ closeWallet
    \/ \E c \in InFlight, r \in {"ok", "err"} :
        \/ handleStartNode_start_node(c, r)
        \/ handleStartNode_start_explorer_server(c, r)
        \/ handleStartNode_start_headless(c, r)
        \/ createWallet_create_headless_wallet(c, r)
        \/ pollWalletStatus_get_headless_wallet_status(c, r)
        \/ loadWalletDetails_all(c, r)
        \/ closeWallet_close_headless_wallet(c, r)

SpecPoll ==
    /\ Init /\ [][NextPoll]_vars
    /\ WF_vars(\E c \in InFlight, r \in {"ok", "err"} :
                  pollWalletStatus_get_headless_wallet_status(c, r))

\* The severity of output lines: a few lines through addLog.
NextLogLevel ==
    \/ \E source \in LogSources, message \in Lines :
          Len(logs) < MaxLogs /\ logId < MaxLineIds /\ addLog(source, message)
    \/ clearLogs

SpecLogLevel == Init /\ [][NextLogLevel]_vars

\* The retention of the log view: the same line, or an empty one, again and
\* again, the first lines of a list from any source and the later ones from the
\* node; Clear Logs on a list that has overflowed.
NextLogs ==
    \/ \E source \in LogSources, message \in {<< "o", "k" >>, << >>} :
          /\ logId < MaxLogId
          /\ Len(logs) < 2 \/ source = "node"
          /\ addLog(source, message)
    \/ Len(logs) > LogLimit /\ clearLogs

SpecLogs == Init /\ [][NextLogs]_vars

\* Crashes of the supervised processes: node, miner and wallet service are
\* started, and each may exit with a non-zero code.
NextCrash ==
    \/ handleStartNode
    \/ handleStartMiner
    \/ \E c \in InFlight, r \in {"ok", "err"} :
        \/ handleStartNode_start_node(c, r)
        \/ handleStartNode_start_explorer_server(c, r)
        \/ handleStartNode_start_headless(c, r)
        \/ handleStartMiner_start_miner(c, r)
    \/ \E e \in Undelivered :
        \/ nodeTerminated(e)
        \/ minerTerminated(e)
        \/ headlessTerminated(e)
    \/ \E s \in Services : ProcessCrash(s)

SpecCrash == Init /\ [][NextCrash]_vars

\* "Stop Network" with the miner: the node and the miner are started, the node
\* stop action runs, and no "Stop Mining" is clicked. "Start Mining" and "Stop
\* Network" are not clicked while the other's call is in flight, so that the
\* miner shown as mining when the stop action ends was mining when it began.
NextStopNode ==
    \/ handleStartNode
    \/ (\A c \in InFlight : c.h # "handleStopNode") /\ handleStartMiner
    \/ Awaiting("start_miner") = {} /\ handleStopNode
    \/ \E c \in InFlight, r \in {"ok", "err"} :
        \/ handleStartNode_start_node(c, r)
        \/ handleStartNode_start_explorer_server(c, r)
        \/ handleStartNode_start_headless(c, r)
        \/ handleStartMiner_start_miner(c, r)
        \/ handleStopNode_dependents(c, r)
        \/ handleStopNode_stop_node(c, r)
    \/ \E e \in Undelivered :
        \/ nodeTerminated(e)
        \/ minerTerminated(e)
        \/ headlessTerminated(e)
    \/ \E s \in Services : ProcessExit(s)

SpecStopNode == Init /\ [][NextStopNode]_vars

\* The wallets against the life of the wallet service: wallets are created,
\* polled, refreshed and closed while the service is stopped from its button
\* or exits on its own.
NextWalletService ==
    \/ handleStartNode
    \/ stopHeadless
    \/ openCreateWallet
    \/ typeWalletId /\ newWalletId' = "w1"
    \/ typeImportSeed
    \/ createWallet
    \/ loadWalletDetails
    \/ closeWallet
    \/ \E c \in InFlight, r \in {"ok", "err"} :
        \/ handleStartNode_start_node(c, r)
        \/ handleStartNode_start_explorer_server(c, r)
        \/ handleStartNode_start_headless(c, r)
        \/ stopHeadless_stop_headless(c, r)
        \/ createWallet_create_headless_wallet(c, r)
        \/ pollWalletStatus_get_headless_wallet_status(c, r)
        \/ loadWalletDetails_all(c, r)
        \/ closeWallet_close_headless_wallet(c, r)
    \/ \E e \in Undelivered : headlessTerminated(e)
    \/ ProcessExit("headless")

SpecWalletService == Init /\ [][NextWalletService]_vars

\* The block height of a running network against its stop: the status polling
\* reads it while the node is stopped from its button or exits on its own.
NextMetrics ==
    \/ handleStartNode
    \/ handleStopNode
    \/ fetchStatus
    \/ \E c \in InFlight, r \in {"ok", "err"} :
        \/ handleStartNode_start_node(c, r)
        \/ handleStartNode_start_explorer_server(c, r)
        \/ handleStartNode_start_headless(c, r)
        \/ handleStopNode_dependents(c, r)
        \/ handleStopNode_stop_node(c, r)
        \/ fetchStatus_get_node_status(c, r)
        \/ fetchStatus_get_fullnode_balance(c, r)
    \/ \E e \in Undelivered :
        \/ nodeTerminated(e)
        \/ headlessTerminated(e)
    \/ ProcessExit("node")

SpecMetrics == Init /\ [][NextMetrics]_vars

\* "Stop Network" on a network in use: the node, the miner and the wallet
\* service are up, a wallet is tracked, the block height and the hash rate have
\* been read.  The user and the status polling act one at a time (no call in
\* flight when the next begins), and no process exits on its own.
NextStopInUse ==
    \/ calls = EmptyBag /\ error = null /\ logs = << >> /\ handleStartNode
    \/ calls = EmptyBag /\ error = null /\ handleStartMiner
    \/ calls = EmptyBag /\ handleStopNode
    \/ calls = EmptyBag /\ blockHeight = 0 /\ fetchStatus
    \/ calls = EmptyBag /\ headlessWallets = << >> /\ openCreateWallet
    \/ calls = EmptyBag /\ headlessWallets = << >> /\ typeWalletId /\ newWalletId' = "w1"
    \/ calls = EmptyBag /\ headlessWallets = << >> /\ typeImportSeed
    \/ calls = EmptyBag /\ headlessWallets = << >> /\ createWallet
    \/ \E c \in InFlight, r \in {"ok", "err"} :
        \/ handleStartNode_start_node(c, r)
        \/ handleStartNode_start_explorer_server(c, r)
        \/ handleStartNode_start_headless(c, r)
        \/ handleStartMiner_start_miner(c, r)
        \/ /\ handleStopNode_dependents(c, r)
           /\ \A e \in BagToSet(events') : e.name = "node-terminated" => e.payload = null
        \/ handleStopNode_stop_node(c, r)
        \/ fetchStatus_get_node_status(c, r)
        \/ /\ fetchStatus_get_fullnode_balance(c, r)
           /\ faucetBalance' \in {null, Some([available |-> 10000, locked |-> 0])}
        \/ createWallet_create_headless_wallet(c, r)
        \/ /\ pollWalletStatus_get_headless_wallet_status(c, r)
           /\ Awaiting("get_headless_wallet_status")' = {}      \* ready at once, or not at all
        \/ loadWalletDetails_all(c, r)
    \/ \E line \in {l \in StatsLines : Len(l) = 12} :
          calls = EmptyBag /\ hashRate = "0 H/s" /\ logId < MaxStats /\ MinerReports(line)
    \/ \E e \in Undelivered :
        \/ nodeTerminated(e)
        \/ minerTerminated(e)
        \/ headlessTerminated(e)
        \/ minerStats(e)

SpecStopInUse == Init /\ [][NextStopInUse]_vars

\* Status requests a wallet takes to become ready.
ReadyWithin == 2

\* The wallet list with two wallets: wallets w1 and w2 are created, polled,
\* refreshed and closed, and the wallet service is stopped from its button.  A
\* wallet answers its ReadyWithin-th status request with the ready code, or
\* the request fails.
NextWalletList ==
    \/ handleStartNode
    \/ stopHeadless
    \/ openCreateWallet
    \/ typeWalletId
    \/ typeImportSeed
    \/ createWallet
    \/ loadWalletDetails
    \/ closeWallet
    \/ \E c \in InFlight, r \in {"ok", "err"} :
        \/ handleStartNode_start_node(c, r)
        \/ handleStartNode_start_explorer_server(c, r)
        \/ handleStartNode_start_headless(c, r)
        \/ stopHeadless_stop_headless(c, r)
        \/ createWallet_create_headless_wallet(c, r)
        \/ /\ pollWalletStatus_get_headless_wallet_status(c, r)
           /\ \A x \in BagToSet(calls') : x.h = "pollWalletStatus" => x.i < ReadyWithin
        \/ loadWalletDetails_all(c, r)
        \/ closeWallet_close_headless_wallet(c, r)
    \/ \E e \in Undelivered : headlessTerminated(e)

SpecWalletList == Init /\ [][NextWalletList]_vars

\* The faucet form on a network that is started and stopped: address and
\* amount are typed and cleared, "Send from Faucet" is clicked.
NextFaucet ==
    \/ handleStartNode
    \/ handleStopNode
    \/ typeFaucetAddress
    \/ typeFaucetAmount
    \/ handleSendTx
    \/ \E c \in InFlight, r \in {"ok", "err"} :
        \/ handleStartNode_start_node(c, r)
        \/ handleStartNode_start_explorer_server(c, r)
        \/ handleStartNode_start_headless(c, r)
        \/ handleStopNode_dependents(c, r)
        \/ handleStopNode_stop_node(c, r)
        \/ handleSendTx_send_tx(c, r)
    \/ \E e \in Undelivered :
        \/ nodeTerminated(e)
        \/ headlessTerminated(e)

SpecFaucet == Init /\ [][NextFaucet]_vars

TypeOK ==
    /\ nodeStatus \in NodeStatusType
    /\ minerStatus \in MinerStatusType
    /\ headlessStatus \in [running : BOOLEAN, port : {null, Some(HeadlessPort)}]
    /\ resetStatus \in {"idle", "resetting", "success", "error"}
    /\ BagCardinality(calls) <= MaxCalls

----------------------------------------------------------------------------
\* What a step does to the calls in flight and to the undelivered events.

\* The step resumes the continuation of call c (its response is delivered).
Consumed(c) == CopiesIn(c, calls') < CopiesIn(c, calls)

\* The step invokes cmd.
Issued(cmd) == \E c \in BagToSet(calls') : c.cmd = cmd /\ CopiesIn(c, calls') > CopiesIn(c, calls)

\* The step invokes cmd from handler h.
IssuedBy(h, cmd) ==
    \E c \in BagToSet(calls') :
        c.h = h /\ c.cmd = cmd /\ CopiesIn(c, calls') > CopiesIn(c, calls)

\* The step delivers event e to its listener.
Delivered(e) == CopiesIn(e, events') < CopiesIn(e, events)

NumAwaiting(cmd) == BagCardinality([c \in Awaiting(cmd) |-> calls[c]])

\* The console shows service s as starting or running.
ShownActive(s) ==
    CASE s = "node" -> nodeStatus \in {"starting", "running"}
      [] s = "miner" -> minerStatus \in {"starting", "mining"}
      [] s = "headless" -> headlessStatus.running

----------------------------------------------------------------------------
\* C1: for node, miner and wallet service, the console never issues the start
\* command of a service while an earlier start request for that service is
\* still in flight or while the service is shown as starting or running.
C1_NoDoubleStart ==
    [][\A s \in Services :
          Issued(StartCmd[s]) => NumAwaiting(StartCmd[s]) = 0 /\ ~ShownActive(s)]_vars

\* C2: a dependent service is shown as running only while the node is shown
\* as running.
C2_DependentsNeedNode ==
    (minerStatus = "mining" \/ headlessStatus.running) => nodeStatus = "running"

\* C3: nodeStatus is one of its four values and changes only along the
\* defined edges; in particular it never goes from stopped to running
\* without passing through starting.
C3_NeverStoppedToRunning ==
    [][/\ nodeStatus' \in NodeStatusType
       /\ ~(nodeStatus = "stopped" /\ nodeStatus' = "running")]_vars

\* C4: a node exit reported while the node is starting or running leaves the
\* state stopped for the graceful exit code (0 or none) and error for any other.
C4_ExitCodeDecidesState ==
    [][\A e \in Undelivered :
          (e.name = "node-terminated" /\ Delivered(e)
              /\ nodeStatus \in {"starting", "running"})
          => nodeStatus' = (IF e.payload \in {null, Some(0)} THEN "stopped" ELSE "error")]_vars

\* C5: handling an unexpected node exit stops every dependent in the same
\* step: the miner is shown stopped, the wallet service not running and its
\* tracked wallets cleared.
C5_NodeExitStopsDependents ==
    [][\A e \in Undelivered :
          (e.name = "node-terminated" /\ Delivered(e) /\ e.payload \notin {null, Some(0)})
          => /\ minerStatus' = "stopped"
             /\ ~headlessStatus'.running
             /\ headlessWallets' = << >>]_vars

\* C6: handleStopNode issues stop_miner, stop_headless, stop_explorer_server,
\* stop_node in this order, each only when the response to the one before has
\* been delivered, and whether that response was a success or a failure.
C6_StopOrder ==
    [][/\ IssuedBy("handleStopNode", "stop_miner")
            => \A c \in InFlight : ~Consumed(c)
       /\ \A cmd \in {"stop_miner", "stop_headless", "stop_explorer_server"} :
            /\ IssuedBy("handleStopNode", handleStopNode_after(cmd))
                 => \E c \in InFlight : c.h = "handleStopNode" /\ c.cmd = cmd /\ Consumed(c)
            /\ \A c \in InFlight :
                 (c.h = "handleStopNode" /\ c.cmd = cmd /\ Consumed(c))
                 => IssuedBy("handleStopNode", handleStopNode_after(cmd))]_vars

\* C6 witness: stop_node has been issued although a dependent stop was rejected
\* (no miner process exists, so stop_miner failed).
C6_StopNodeAfterFailedDependent ==
    /\ \E c \in InFlight : c.h = "handleStopNode" /\ c.cmd = "stop_node" /\ c.st = "ok"
    /\ ~alive["miner"]
    /\ minerStatus = "stopped"

SendsInFlight(W) ==
    BagCardinality([c \in {d \in InFlight : d.cmd = "headless_wallet_send_tx" /\ d.w = W}
                        |-> calls[c]])

FundsInFlight(W) ==
    BagCardinality([c \in {d \in InFlight : d.h = "fundWallet" /\ d.w = W} |-> calls[c]])

\* C8: for every wallet id W, at most one headless_wallet_send_tx for W is in
\* flight: a second send request for W made while one is outstanding issues
\* no second headless_wallet_send_tx.
C8_OneSendPerWallet == \A W \in WalletIds : SendsInFlight(W) <= 1

\* C9: for every target wallet id W, at most one fundWallet(W) is in flight: a
\* second Fund action on W before the first fundWallet(W) has completed starts
\* no second transfer.
C9_OneFundPerWallet == \A W \in WalletIds : FundsInFlight(W) <= 1

\* C10: reset_data is issued only while every service is shown stopped.
C10_ResetOnlyWhenAllStopped ==
    [][Issued("reset_data") => \A s \in Services : ~ShownActive(s)]_vars

----------------------------------------------------------------------------
\* fundWallet.

\* The send_tx calls that the step issues from fundWallet.
FundSendsIssued ==
    {c \in BagToSet(calls') :
        c.h = "fundWallet" /\ c.cmd = "send_tx" /\ CopiesIn(c, calls') > CopiesIn(c, calls)}

\* The send_tx calls of fundWallet in flight.
FundSends == {c \in InFlight : c.h = "fundWallet" /\ c.cmd = "send_tx"}

\* The balance read by the step that resumes fundWallet after get_fullnode_balance.
FreshAvailable == faucetBalance'[1].available

FaucetEmptyError == Some("Faucet has no available funds. Wait for blocks to be mined and confirmed.")

\* C11: for every available balance a > 0 that fundWallet reads, the amount it
\* submits is max(100, min(floor(a / 10), 10000)): a tenth of a when that lies
\* between 100 and 10000, 100 when the tenth is smaller, 10000 when it is larger.
C11_FundAmountPolicy ==
    [][\A c \in InFlight :
          fundWallet_get_fullnode_balance(c, "ok") /\ FreshAvailable > 0 =>
              /\ FundSendsIssued # {}
              /\ \A s \in FundSendsIssued :
                    CASE FreshAvailable < 1000 -> s.amt = 100
                      [] FreshAvailable >= 100010 -> s.amt = 10000
                      [] OTHER -> /\ s.amt * 10 <= FreshAvailable
                                  /\ FreshAvailable < (s.amt + 1) * 10]_vars

\* fundWallet has read 10000 and submits 1000.
C11_TenPercentSubmitted ==
    /\ faucetBalance = Some([available |-> 10000, locked |-> 0])
    /\ \E s \in FundSends : s.amt = 1000

\* C12: when the balance fundWallet has just read is 0, fundWallet ends with the
\* 'faucet has no available funds' error, which no other error of fundWallet
\* equals, and issues no send_tx.
C12_EmptyFaucetRefused ==
    [][\A c \in InFlight :
          /\ fundWallet_get_fullnode_balance(c, "ok") /\ FreshAvailable = 0 =>
                /\ error' = FaucetEmptyError
                /\ FundSendsIssued = {}
                /\ FundsInFlight(c.w)' = FundsInFlight(c.w) - 1
          /\ (c.h = "fundWallet" /\ Consumed(c) /\ error' # error /\ error' = FaucetEmptyError) =>
                fundWallet_get_fullnode_balance(c, "ok") /\ FreshAvailable = 0]_vars

\* fundWallet has ended on an empty faucet.
C12_AfterEmptyFaucet ==
    /\ error = FaucetEmptyError
    /\ faucetBalance = Some([available |-> 0, locked |-> 0])
    /\ \A W \in WalletIds : FundsInFlight(W) = 0

\* C13: every send_tx of fundWallet is issued by the step that receives the
\* get_fullnode_balance response of the same fundWallet invocation, with the
\* amount computed from that response; when the balance read fails, no send_tx
\* is issued.
C13_FreshBalanceBeforeSend ==
    [][/\ \A s \in FundSendsIssued :
             \E c \in InFlight :
                /\ c.w = s.w
                /\ fundWallet_get_fullnode_balance(c, "ok")
                /\ s.amt = fundAmount(FreshAvailable)
       /\ \A c \in InFlight :
             fundWallet_get_fullnode_balance(c, "err") => FundSendsIssued = {}]_vars

\* fundWallet submits the capped amount after reading a large balance.
C13_SendAfterFreshRead ==
    /\ faucetBalance = Some([available |-> 200000, locked |-> 0])
    /\ \E s \in FundSends : s.amt = MaxFund

\* C14: for every available balance a > 0 read by fundWallet, the amount it
\* submits is greater than 0 and strictly less than a.
C14_NeverDrainsFaucet ==
    [][\A c \in InFlight :
          fundWallet_get_fullnode_balance(c, "ok") /\ FreshAvailable > 0 =>
              \A s \in FundSendsIssued : 0 < s.amt /\ s.amt < FreshAvailable]_vars

----------------------------------------------------------------------------
\* The tracked wallet list.

TrackedIds(wallets) == {wallets[k].wallet_id : k \in DOMAIN wallets}

\* C15: createWallet with a wallet id that is already tracked issues no
\* create_headless_wallet and leaves the tracked list unchanged, so the list
\* never holds two entries with the same wallet_id.
C15_DuplicateIdRejected ==
    [][/\ \A c \in BagToSet(calls') :
             c.cmd = "create_headless_wallet" /\ CopiesIn(c, calls') > CopiesIn(c, calls)
                 => c.w \notin TrackedIds(headlessWallets)
       /\ \A j, k \in DOMAIN headlessWallets' :
             headlessWallets'[j].wallet_id = headlessWallets'[k].wallet_id => j = k]_vars

\* C17: when closeWallet(id) completes, id is no longer tracked, whether
\* close_headless_wallet succeeded or failed.
C17_CloseAlwaysUntracks ==
    [][\A c \in InFlight :
          c.h = "closeWallet" /\ Consumed(c) => c.w \notin TrackedIds(headlessWallets')]_vars

\* C16: the readiness polling started by a successful createWallet terminates.
\* Its attempts are numbered below 30, each round ends the polling or moves to
\* the next attempt, a round that observes the ready code ends it, and the
\* round of the last attempt ends it without setting an error and without
\* removing a wallet from the tracked list.
C16_PollingTerminates ==
    /\ [][\A c \in PollCalls :
             /\ c.i < maxAttempts
             /\ \A r \in {"ok", "err"} :
                   pollWalletStatus_get_headless_wallet_status(c, r) =>
                      LET again == PollCalls' \ (PollCalls \ {c})
                      IN  /\ again \subseteq {[c EXCEPT !.i = c.i + 1]}
                          /\ again # {} =>
                                \A k \in DOMAIN headlessWallets' :
                                    headlessWallets'[k].wallet_id = c.w =>
                                        headlessWallets'[k].status_code # Some(ReadyCode)
                          /\ c.i = maxAttempts - 1 =>
                                /\ PollCalls' = {}
                                /\ error' = error
                                /\ TrackedIds(headlessWallets') = TrackedIds(headlessWallets)
                                /\ Len(headlessWallets') = Len(headlessWallets)]_vars
    /\ (PollCalls # {}) ~> (PollCalls = {})

\* The 30th attempt is in flight for a tracked wallet that is not ready.
C16_LastAttempt ==
    \E c \in PollCalls :
        /\ c.i = maxAttempts - 1
        /\ \E k \in Tracked :
              /\ headlessWallets[k].wallet_id = c.w
              /\ headlessWallets[k].status_code = Some(ReadyCode - 1)

----------------------------------------------------------------------------
\* C18: in handleStartNode, start_explorer_server is issued only by the step
\* that receives the success of start_node and start_headless only by the step
\* that receives the outcome of start_explorer_server, whatever that outcome is;
\* a failed start_node issues neither, and a failure of the explorer start or of
\* the wallet-service start changes neither nodeStatus nor error.
C18_BestEffortAfterNode ==
    [][/\ IssuedBy("handleStartNode", "start_explorer_server") =>
             \E c \in InFlight : handleStartNode_start_node(c, "ok")
       /\ IssuedBy("handleStartNode", "start_headless") =>
             \E c \in InFlight, r \in {"ok", "err"} :
                 handleStartNode_start_explorer_server(c, r)
       /\ \A c \in InFlight :
             /\ handleStartNode_start_node(c, "err") =>
                   ~Issued("start_explorer_server") /\ ~Issued("start_headless")
             /\ handleStartNode_start_explorer_server(c, "err") =>
                   /\ IssuedBy("handleStartNode", "start_headless")
                   /\ nodeStatus' = nodeStatus /\ error' = error
             /\ handleStartNode_start_headless(c, "err") =>
                   nodeStatus' = nodeStatus /\ error' = error]_vars

\* handleStartNode has returned with the node running and the wallet service not
\* started, and no failure is shown.
C18_NodeRunningWithoutWalletService ==
    /\ calls = EmptyBag
    /\ events = EmptyBag
    /\ nodeStatus = "running" /\ alive["node"]
    /\ ~headlessStatus.running /\ ~alive["headless"]
    /\ error = null

----------------------------------------------------------------------------
\* The log view.

\* Character a of a line is character b of a tag, whatever its case.
SameLetter(a, b) == a = b \/ \E k \in 1..26 : UpperCase[k] = a /\ LowerCase[k] = b

\* The line contains the tag, case-insensitively.
HasTag(line, tag) ==
    \E i \in 0..(Len(line) - Len(tag)) :
        \A k \in 1..Len(tag) : SameLetter(line[i + k], tag[k])

Severity(line) ==
    CASE HasTag(line, << "[", "e", "r", "r", "o", "r", "]" >>)
            \/ HasTag(line, << "e", "r", "r", "o", "r", ":" >>) -> "error"
      [] OTHER ->
    CASE HasTag(line, << "[", "w", "a", "r", "n" >>)
            \/ HasTag(line, << "w", "a", "r", "n", "i", "n", "g" >>) -> "warning"
      [] OTHER ->
    CASE HasTag(line, << "[", "d", "e", "b", "u", "g", "]" >>) -> "debug"
      [] OTHER -> "info"

\* C19: the severity of every log line is decided case-insensitively by the
\* first match in the order: '[error]' or 'error:' gives error, else '[warn' or
\* 'warning' gives warning, else '[debug]' gives debug, else info.
C19_SeverityByFirstTag ==
    \A k \in DOMAIN logs : logs[k].level = Severity(logs[k].message)

\* '[ERROR] connection refused' is retained with severity error.
C19_ErrorLineLogged ==
    \E k \in DOMAIN logs :
        /\ logs[k].message = << "[", "E", "R", "R", "O", "R", "]", " ", "c", "o", "n", "n",
                                "e", "c", "t", "i", "o", "n", " ", "r", "e", "f", "u", "s",
                                "e", "d" >>
        /\ logs[k].level = "error"

\* C20: the retained log list never holds more than 1000 entries.
C20_LogsBounded == Len(logs) <= LogLimit

\* C21: the retained log list holds the accepted lines in arrival order, each
\* once: ids increase strictly along the list and are never reused, also after
\* Clear Logs; a step that adds a line keeps the lines before it in their order
\* and drops only from the oldest end, and only on overflow.
C21_ArrivalOrder ==
    [][/\ \A k \in 1..(Len(logs') - 1) : logs'[k].id < logs'[k + 1].id
       /\ logId' >= logId
       /\ logs' # << >> => logs'[Len(logs')].id < logId'
       /\ (logs' # logs /\ logs' # << >>) =>
             LET dropped == Len(logs) + 1 - Len(logs')
             IN  /\ dropped >= 0
                 /\ dropped > 0 => Len(logs) > LogLimit
                 /\ SubSeq(logs', 1, Len(logs') - 1) = SubSeq(logs, dropped + 1, Len(logs))
                 /\ logs'[Len(logs')].id = logId]_vars

\* The list has overflowed and its oldest line is gone.
C21_OldestDropped == Len(logs) > LogLimit /\ logs[1].id > 0

\* C24: the message of a retained entry is the line with its ANSI sequences
\* (ESC '[', digits and semicolons, then 'm' or 'K') removed, its severity is
\* that of the stripped text, and a line that is empty or white space after
\* stripping adds no entry and uses no id.
C24_StrippedBeforeLogged ==
    [][\A source \in LogSources, message \in Lines :
          addLog(source, message) =>
              LET clean == stripAnsi(message)
              IN  IF \A i \in 1..Len(clean) : clean[i] \in WhiteSpace
                  THEN logs' = logs /\ logId' = logId
                  ELSE /\ Len(logs') = Len(logs) + 1
                       /\ logs'[Len(logs')].message = clean
                       /\ logs'[Len(logs')].level = Severity(clean)
                       /\ logs'[Len(logs')].id = logId
                       /\ logId' = logId + 1]_vars

\* A coloured '[error] x' is retained without its colour sequences, as an error.
C24_ColourRemoved ==
    \E k \in DOMAIN logs :
        /\ logs[k].message = << "[", "e", "r", "r", "o", "r", "]", " ", "x" >>
        /\ logs[k].level = "error"

----------------------------------------------------------------------------
\* The state in which the console shows service s.
ShownState(s) ==
    CASE s = "node" -> nodeStatus
      [] s = "miner" -> minerStatus
      [] s = "headless" -> IF headlessStatus.running THEN "running" ELSE "stopped"

\* C22: the delivery of a *-terminated event that reports a non-zero exit code
\* of the node, the miner or the wallet service leaves an error indication: the
\* error state of the service or an error message.
C22_CrashIsReported ==
    [][\A s \in Services, e \in Undelivered :
          (e.name = TerminatedEvent[s] /\ Delivered(e)
             /\ e.payload # null /\ e.payload # Some(0)) =>
                ShownState(s)' = "error" \/ error' # null]_vars

----------------------------------------------------------------------------
\* C23: the node stop action run while the miner is shown as mining issues
\* stop_miner itself, and when the action returns (the stop_node response is
\* handled) the miner is shown as stopped, no "Stop Mining" having been clicked.
C23_StopNodeStopsMiner ==
    [][/\ (handleStopNode /\ minerStatus = "mining")
             => IssuedBy("handleStopNode", "stop_miner")
       /\ \A c \in InFlight :
             (c.h = "handleStopNode" /\ c.cmd = "stop_node" /\ Consumed(c)
                /\ minerStatus = "mining") => minerStatus' = "stopped"]_vars

----------------------------------------------------------------------------
\* C25: in every quiescent state (no start_node or stop_node call in flight, no
\* node-terminated event undelivered) a node shown as running has a live
\* process, also when the start response arrives after the termination event.
C25_RunningMeansAlive ==
    (/\ Awaiting("start_node") = {}
     /\ Awaiting("stop_node") = {}
     /\ Pending("node-terminated") = 0
     /\ nodeStatus = "running") => alive["node"]

----------------------------------------------------------------------------
\* C26: whenever the wallet service is shown as not running the tracked wallet
\* list is empty, also when a create_headless_wallet response arrives after
\* the service was stopped or its termination was handled.
C26_NoWalletsWithoutService ==
    ~headlessStatus.running => headlessWallets = << >>

----------------------------------------------------------------------------
\* C27: when stop_node is rejected inside the node stop action, the action sets
\* the error message and nothing else: nodeStatus, minerStatus, headlessStatus,
\* the tracked wallets, blockHeight and hashRate keep their values, although
\* the dependents' stop commands have been issued before.
C27_FailedStopChangesOnlyError ==
    [][\A c \in InFlight :
          (c.h = "handleStopNode" /\ c.cmd = "stop_node" /\ c.st = "err" /\ Consumed(c))
             => /\ error' # null
                /\ UNCHANGED << nodeStatus, minerStatus, headlessStatus, headlessWallets,
                                blockHeight, hashRate >>]_vars

\* The stop action has failed on a network in use: it has stopped the miner and
\* the wallet service, and the console still shows all of it as before.
C27_AfterFailedStop ==
    /\ calls = EmptyBag
    /\ error = Some(BackendError)
    /\ nodeStatus = "running" /\ alive["node"]
    /\ minerStatus = "mining" /\ ~alive["miner"]
    /\ headlessStatus.running /\ ~alive["headless"]
    /\ headlessWallets # << >>
    /\ blockHeight > 0
    /\ hashRate # "0 H/s"

----------------------------------------------------------------------------
\* C30: the metrics never outlive the node: whenever the node is shown as
\* stopped, the block height is 0 and the hash rate is "0 H/s", whether the
\* node was stopped from its button or exited on its own, and whatever
\* arrives afterwards.
C30_NoMetricsWhenStopped ==
    nodeStatus = "stopped" => blockHeight = 0 /\ hashRate = "0 H/s"

----------------------------------------------------------------------------
\* C28: a response handled by pollWalletStatus(id) or loadWalletDetails(id)
\* leaves the tracked wallet list with the same entries in the same places,
\* and every entry of another wallet as it was; a wallet that was closed, or
\* cleared with the wallet service, is therefore not tracked again by it.
C28_ResponsesKeepTheList ==
    [][\A c \in InFlight :
          (c.h \in {"pollWalletStatus", "loadWalletDetails"} /\ Consumed(c))
             => /\ Len(headlessWallets') = Len(headlessWallets)
                /\ \A k \in Tracked :
                      /\ headlessWallets'[k].wallet_id = headlessWallets[k].wallet_id
                      /\ headlessWallets[k].wallet_id # c.w
                            => headlessWallets'[k] = headlessWallets[k]]_vars

\* The polling of a wallet goes on in a later round after the wallet has left
\* the list, next to another wallet that is tracked.
C28_PolledAfterClose ==
    \E c \in InFlight :
        /\ c.h = "pollWalletStatus" /\ c.i >= 1
        /\ ~(c.w \in TrackedIds(headlessWallets))
        /\ TrackedIds(headlessWallets) # {}

----------------------------------------------------------------------------
\* The send_tx calls of the faucet form in flight.
FaucetSends ==
    BagCardinality([c \in {x \in InFlight : x.h = "handleSendTx" /\ x.cmd = "send_tx"}
                      |-> calls[c]])

\* C29: sendingTx is true exactly while a send_tx issued by handleSendTx is in
\* flight: it is set with the call and reset when the call has succeeded or
\* failed; no second such call is issued while it is true, and none is issued
\* with an empty address or an empty amount.
C29_SendingWhileInFlight ==
    /\ [](sendingTx <=> FaucetSends = 1)
    /\ [](FaucetSends <= 1)
    /\ [][IssuedBy("handleSendTx", "send_tx")
             => /\ ~sendingTx /\ sendingTx'
                /\ faucetAddress # "" /\ faucetAmount # << >>]_vars

\* A faucet send has failed and the form can be submitted again.
C29_AfterFailedSend ==
    /\ ~sendingTx
    /\ txResult = Some([type |-> "error", message |-> BackendError])
    /\ FaucetSends = 0
    /\ SendFromFaucetButton

====
